---- MODULE Spec2Model ----
(***************************************************************************)
(* cw20-bondcamp: a cw20 token priced on a bonding curve, layered with a   *)
(* liquid-staking derivative (bond / unbond / claim / reinvest).           *)
(*                                                                         *)
(* Every entry point of do_execute is a pure handler operator that maps    *)
(* the storage, the querier's answers and the message to a result          *)
(* [err, st, msgs]; the action that wraps it commits st and lets the host  *)
(* carry out msgs only when err = "ok", as the host's all-or-nothing       *)
(* transaction does.                                                       *)
(***************************************************************************)
EXTENDS Integers, Sequences, FiniteSets, TLC

VARIABLES
    balances,       \* cw20 BALANCES: account -> token balance
    total_supply,   \* TOKEN_INFO_WITH_META.token_info.total_supply
    allowances,     \* cw20 ALLOWANCES: <<owner, spender>> -> allowance
    curve_state,    \* CURVE_STATE: [reserve, supply, reserve_denom, decimals, claims]
    claims,         \* CLAIMS: account -> sequence of [amount, release_at]
    invest,         \* INVESTMENT, fixed at instantiation
    curve_type,     \* CURVE_TYPE, fixed at instantiation
    bank,           \* host: the contract's liquid balance per denomination
    bonded,         \* host: total the contract has delegated to the validator
    unbonding,      \* host: completion time -> amount still unbonding
    callbacks,      \* host: _BondAllTokens self-invocations in flight
    now             \* env.block.time

vars == <<balances, total_supply, allowances, curve_state, claims, invest,
          curve_type, bank, bonded, unbonding, callbacks, now>>

(***************************************************************************)
(* Bounds of the model.                                                    *)
(***************************************************************************)
MaxPay == 2
MaxReserve == 3
MaxAmount == 2
MaxTime == 1
MaxClaims == 2
MaxReward == 1
MaxCallbacks == 1

(***************************************************************************)
(* Identities, denominations and instantiation inputs.                     *)
(***************************************************************************)
CREATOR == "creator"
BOB == "bob"
MOCK_CONTRACT_ADDR == "contract"
Accounts == {CREATOR, BOB}

BondDenom == "ustake"
DENOM == "satoshi"
\* a denomination no handler reads or sends; the model does not track its balance
JunkDenom == "random"
Denoms == {BondDenom, DENOM}

\* The instantiations explored.  InstantiateMsg gives curve_type with
\* DecimalPlaces::new(decimals, reserve_decimals), the reserve denomination and
\* StakingParams { exit_tax (percent), min_withdrawal, unbonding_period }:
\*   CurveType::Linear { slope: 1, scale: 1 } with one reserve decimal, and
\*   CurveType::Constant { value: 15, scale: 1 } on whole units, once with no
\*   exit tax and once with an exit_tax of 2.0, which instantiate accepts
InstantiateMsgs ==
    { [curve_type |-> [kind |-> "linear", value |-> 1, scale |-> 1],
       decimals |-> [supply |-> 0, reserve |-> 1],
       reserve_denom |-> BondDenom,
       exit_tax |-> 50, min_withdrawal |-> 1, unbonding_period |-> 1],
      [curve_type |-> [kind |-> "constant", value |-> 15, scale |-> 1],
       decimals |-> [supply |-> 0, reserve |-> 0],
       reserve_denom |-> DENOM,
       exit_tax |-> 0, min_withdrawal |-> 2, unbonding_period |-> 1],
      [curve_type |-> [kind |-> "constant", value |-> 15, scale |-> 1],
       decimals |-> [supply |-> 0, reserve |-> 0],
       reserve_denom |-> DENOM,
       exit_tax |-> 200, min_withdrawal |-> 1, unbonding_period |-> 1] }

RECURSIVE Pow10(_)
Pow10(n) == IF n = 0 THEN 1 ELSE 10 * Pow10(n - 1)

\* u128::integer_sqrt
Isqrt(n) == CHOOSE k \in 0..n : k * k <= n /\ (k + 1) * (k + 1) > n

RECURSIVE SumSeq(_)
SumSeq(s) == IF s = <<>> THEN 0 ELSE Head(s).amount + SumSeq(Tail(s))

RECURSIVE SumOver(_, _)
SumOver(f, S) ==
    IF S = {} THEN 0
    ELSE LET x == CHOOSE y \in S : TRUE IN f[x] + SumOver(f, S \ {x})

(***************************************************************************)
(* Curve engine (cw20_bonding::curves): curve_fn(decimals) of a CurveType. *)
(*   Constant: supply = reserve / value,  reserve = supply * value         *)
(*   Linear:   supply = (2 * reserve / slope)^0.5,                         *)
(*             reserve = slope * supply^2 / 2                              *)
(* with value = value / 10^scale; to_supply and to_reserve take the floor. *)
(***************************************************************************)
curve_supply(ct, places, reserve) ==
    IF ct.kind = "constant"
    THEN (reserve * Pow10(ct.scale) * Pow10(places.supply))
             \div (ct.value * Pow10(places.reserve))
    ELSE Isqrt((2 * reserve * Pow10(ct.scale) * Pow10(2 * places.supply))
             \div (ct.value * Pow10(places.reserve)))

curve_reserve(ct, places, supply) ==
    IF ct.kind = "constant"
    THEN (supply * ct.value * Pow10(places.reserve))
             \div (Pow10(ct.scale) * Pow10(places.supply))
    ELSE (supply * supply * ct.value * 5 * Pow10(places.reserve))
             \div (Pow10(2 * places.supply) * Pow10(ct.scale) * 10)

(***************************************************************************)
(* Results of a handler.                                                   *)
(***************************************************************************)
Ok(st, msgs) == [err |-> "ok", st |-> st, msgs |-> msgs, attrs |-> <<>>]
Err(e, st) == [err |-> e, st |-> st, msgs |-> <<>>, attrs |-> <<>>]

\* Response::add_attribute
attr(key, value) == [key |-> key, value |-> value]
add_attributes(res, attrs) == [res EXCEPT !.attrs = @ \o attrs]

Storage == [balances |-> balances, total_supply |-> total_supply,
            allowances |-> allowances, curve_state |-> curve_state,
            claims |-> claims]

\* Response messages
BankSend(to, amount, denom) ==
    [type |-> "send", to |-> to, amount |-> amount, denom |-> denom]
Delegate(amount, denom) ==
    [type |-> "delegate", to |-> "validator", amount |-> amount, denom |-> denom]
Undelegate(amount, denom) ==
    [type |-> "undelegate", to |-> "validator", amount |-> amount, denom |-> denom]
WithdrawDelegatorReward ==
    [type |-> "withdraw", to |-> "validator", amount |-> 0, denom |-> BondDenom]
WasmExecuteBondAllTokens ==
    [type |-> "execute", to |-> MOCK_CONTRACT_ADDR, amount |-> 0, denom |-> BondDenom]
\* Cw20ReceiveMsg { sender, amount, msg } wrapped for the receiving contract
Cw20ReceiveMsg(contract, sender, amount) ==
    [type |-> "receive", to |-> contract, amount |-> amount, denom |-> sender]

Coin(amount, denom) == [amount |-> amount, denom |-> denom]

(***************************************************************************)
(* Token ledger primitives (bonding.rs).                                   *)
(***************************************************************************)
\* variant of execute_burn that leaves total_supply as it was
execute_burn_supply_kept(st, sender, amount) ==
    IF amount = 0 THEN Err("InvalidZeroAmount", st)
    ELSE IF st.balances[sender] < amount THEN Err("Overflow", st)
    ELSE Ok([st EXCEPT !.balances[sender] = @ - amount], <<>>)

\* variant of execute_burn that burns what the account has when it has less
execute_burn_saturating(st, sender, amount) ==
    IF amount = 0 THEN Err("InvalidZeroAmount", st)
    ELSE IF st.total_supply < amount THEN Err("Overflow", st)
    ELSE add_attributes(Ok([st EXCEPT !.balances[sender] = IF @ < amount THEN 0 ELSE @ - amount,
                                     !.total_supply = @ - amount], <<>>),
                        <<attr("action", "burn"), attr("from", sender),
                          attr("amount", amount)>>)

execute_burn(st, sender, amount) ==
    IF amount = 0 THEN Err("InvalidZeroAmount", st)
    ELSE IF st.balances[sender] < amount THEN Err("Overflow", st)
    ELSE IF st.total_supply < amount THEN Err("Overflow", st)
    ELSE add_attributes(Ok([st EXCEPT !.balances[sender] = @ - amount,
                                     !.total_supply = @ - amount], <<>>),
                        <<attr("action", "burn"), attr("from", sender),
                          attr("amount", amount)>>)

\* variant of execute_mint that accepts a zero amount
execute_mint_zero_ok(st, sender, recipient, amount) ==
    IF sender # MOCK_CONTRACT_ADDR THEN Err("Unauthorized", st)
    ELSE add_attributes(Ok([st EXCEPT !.total_supply = @ + amount,
                                     !.balances[recipient] = @ + amount], <<>>),
                        <<attr("action", "mint"), attr("to", recipient),
                          attr("amount", amount)>>)

\* the minter is the contract itself and no cap is set (contract.rs instantiate)
execute_mint(st, sender, recipient, amount) ==
    IF amount = 0 THEN Err("InvalidZeroAmount", st)
    ELSE IF sender # MOCK_CONTRACT_ADDR THEN Err("Unauthorized", st)
    ELSE add_attributes(Ok([st EXCEPT !.total_supply = @ + amount,
                                     !.balances[recipient] = @ + amount], <<>>),
                        <<attr("action", "mint"), attr("to", recipient),
                          attr("amount", amount)>>)

(***************************************************************************)
(* Payment helpers (cw0).                                                  *)
(***************************************************************************)
nonpayable(funds) == IF funds = <<>> THEN "ok" ELSE "NonPayable"

must_pay(funds, denom) ==
    IF Len(funds) = 0 THEN [err |-> "NoFunds", amount |-> 0]
    ELSE IF Len(funds) > 1 THEN [err |-> "MultipleDenoms", amount |-> 0]
    ELSE IF funds[1].amount = 0 THEN [err |-> "NoFunds", amount |-> 0]
    ELSE IF funds[1].denom # denom THEN [err |-> "MissingDenom", amount |-> 0]
    ELSE [err |-> "ok", amount |-> funds[1].amount]

(***************************************************************************)
(* Allowances (cw20_base::allowances) and transfers (cw20_base::contract). *)
(* An allowance is [present, allowance, expires]; expires < 0 is Never.    *)
(***************************************************************************)
NeverExpires == 0 - 1
NoAllowance == [present |-> FALSE, allowance |-> 0, expires |-> NeverExpires]
is_expired(expires, time) == expires >= 0 /\ time >= expires

deduct_allowance(st, owner, spender, time, amount) ==
    LET a == st.allowances[<<owner, spender>>] IN
    IF ~a.present THEN Err("NoAllowance", st)
    ELSE IF is_expired(a.expires, time) THEN Err("Expired", st)
    ELSE IF a.allowance < amount THEN Err("Overflow", st)
    ELSE Ok([st EXCEPT !.allowances[<<owner, spender>>].allowance = @ - amount], <<>>)

\* expires = NeverExpires - 1 stands for `expires: None`
NoExpiryGiven == NeverExpires - 1

execute_increase_allowance(st, sender, spender, amount, expires) ==
    IF spender = sender THEN Err("CannotSetOwnAccount", st)
    ELSE LET old == st.allowances[<<sender, spender>>]
             val == [present |-> TRUE,
                     allowance |-> old.allowance + amount,
                     expires |-> IF expires = NoExpiryGiven THEN old.expires ELSE expires]
         IN Ok([st EXCEPT !.allowances[<<sender, spender>>] = val], <<>>)

execute_decrease_allowance(st, sender, spender, amount, expires) ==
    IF spender = sender THEN Err("CannotSetOwnAccount", st)
    ELSE LET old == st.allowances[<<sender, spender>>] IN
         IF ~old.present THEN Err("NotFound", st)
         ELSE IF amount < old.allowance
         THEN Ok([st EXCEPT !.allowances[<<sender, spender>>] =
                     [present |-> TRUE,
                      allowance |-> old.allowance - amount,
                      expires |-> IF expires = NoExpiryGiven THEN old.expires ELSE expires]],
                 <<>>)
         ELSE Ok([st EXCEPT !.allowances[<<sender, spender>>] = NoAllowance], <<>>)

\* variant of execute_transfer that destroys the tokens it moves
execute_transfer_burning(st, sender, recipient, amount) ==
    IF amount = 0 THEN Err("InvalidZeroAmount", st)
    ELSE IF st.balances[sender] < amount THEN Err("Overflow", st)
    ELSE Ok([st EXCEPT !.balances[sender] = @ - amount,
                       !.total_supply = @ - amount], <<>>)

execute_transfer(st, sender, recipient, amount) ==
    IF amount = 0 THEN Err("InvalidZeroAmount", st)
    ELSE IF st.balances[sender] < amount THEN Err("Overflow", st)
    ELSE LET st1 == [st EXCEPT !.balances[sender] = @ - amount]
         IN Ok([st1 EXCEPT !.balances[recipient] = @ + amount], <<>>)

\* variant of execute_transfer_from that moves the tokens without an allowance
execute_transfer_from_free(st, sender, owner, recipient, time, amount) ==
    IF st.balances[owner] < amount THEN Err("Overflow", st)
    ELSE LET st1 == [st EXCEPT !.balances[owner] = @ - amount]
         IN Ok([st1 EXCEPT !.balances[recipient] = @ + amount], <<>>)

execute_transfer_from(st, sender, owner, recipient, time, amount) ==
    LET d == deduct_allowance(st, owner, sender, time, amount) IN
    IF d.err # "ok" THEN d
    ELSE IF d.st.balances[owner] < amount THEN Err("Overflow", d.st)
    ELSE LET st1 == [d.st EXCEPT !.balances[owner] = @ - amount]
         IN Ok([st1 EXCEPT !.balances[recipient] = @ + amount], <<>>)

(***************************************************************************)
(* Buy / Sell engine (bonding.rs).                                         *)
(***************************************************************************)
\* cw20 Send and SendFrom: the transfer, then a message to the receiving contract
execute_send(st, sender, contract, amount) ==
    LET t == execute_transfer(st, sender, contract, amount) IN
    IF t.err # "ok" THEN t
    ELSE Ok(t.st, <<Cw20ReceiveMsg(contract, sender, amount)>>)

execute_send_from(st, sender, owner, contract, time, amount) ==
    LET t == execute_transfer_from(st, sender, owner, contract, time, amount) IN
    IF t.err # "ok" THEN t
    ELSE Ok(t.st, <<Cw20ReceiveMsg(contract, sender, amount)>>)

\* variant of execute_buy that takes the last coin attached, whatever it is
execute_buy_any_coin(st, sender, funds, ct) ==
    LET pay == IF funds = <<>> THEN [err |-> "NoFunds", amount |-> 0]
               ELSE [err |-> "ok", amount |-> funds[Len(funds)].amount] IN
    IF pay.err # "ok" THEN Err(pay.err, st)
    ELSE
    LET reserve == st.curve_state.reserve + pay.amount
        new_supply == curve_supply(ct, st.curve_state.decimals, reserve)
    IN
    IF new_supply < st.curve_state.supply THEN Err("Overflow", st)
    ELSE
    LET minted == new_supply - st.curve_state.supply
        st1 == [st EXCEPT !.curve_state.reserve = reserve,
                          !.curve_state.supply = new_supply]
        m == execute_mint(st1, MOCK_CONTRACT_ADDR, sender, minted)
    IN IF m.err # "ok" THEN m
       ELSE add_attributes(Ok(m.st, <<>>),
                           <<attr("action", "buy"), attr("from", sender),
                             attr("reserve", pay.amount), attr("supply", minted)>>)

\* variant of execute_buy that mints one token per unit paid
execute_buy_flat(st, sender, funds, ct) ==
    LET pay == must_pay(funds, st.curve_state.reserve_denom) IN
    IF pay.err # "ok" THEN Err(pay.err, st)
    ELSE
    LET reserve == st.curve_state.reserve + pay.amount
        new_supply == st.curve_state.supply + pay.amount
    IN
    IF new_supply < st.curve_state.supply THEN Err("Overflow", st)
    ELSE
    LET minted == new_supply - st.curve_state.supply
        st1 == [st EXCEPT !.curve_state.reserve = reserve,
                          !.curve_state.supply = new_supply]
        m == execute_mint(st1, MOCK_CONTRACT_ADDR, sender, minted)
    IN IF m.err # "ok" THEN m
       ELSE add_attributes(Ok(m.st, <<>>),
                           <<attr("action", "buy"), attr("from", sender),
                             attr("reserve", pay.amount), attr("supply", minted)>>)

execute_buy(st, sender, funds, ct) ==
    LET pay == must_pay(funds, st.curve_state.reserve_denom) IN
    IF pay.err # "ok" THEN Err(pay.err, st)
    ELSE
    LET reserve == st.curve_state.reserve + pay.amount
        new_supply == curve_supply(ct, st.curve_state.decimals, reserve)
    IN
    IF new_supply < st.curve_state.supply THEN Err("Overflow", st)
    ELSE
    LET minted == new_supply - st.curve_state.supply
        st1 == [st EXCEPT !.curve_state.reserve = reserve,
                          !.curve_state.supply = new_supply]
        m == execute_mint(st1, MOCK_CONTRACT_ADDR, sender, minted)
    IN IF m.err # "ok" THEN m
       ELSE add_attributes(Ok(m.st, <<>>),
                           <<attr("action", "buy"), attr("from", sender),
                             attr("reserve", pay.amount), attr("supply", minted)>>)

\* variant of do_sell that releases one reserve unit per token
do_sell_flat(st, burner, receiver, amount, ct) ==
    LET b == execute_burn(st, burner, amount) IN
    IF b.err # "ok" THEN b
    ELSE IF b.st.curve_state.supply < amount THEN Err("Overflow", b.st)
    ELSE
    LET supply == b.st.curve_state.supply - amount
        new_reserve == IF b.st.curve_state.reserve < amount THEN 0
                       ELSE b.st.curve_state.reserve - amount
    IN
    IF b.st.curve_state.reserve < new_reserve THEN Err("Overflow", b.st)
    ELSE
    LET released == b.st.curve_state.reserve - new_reserve
    IN add_attributes(
           Ok([b.st EXCEPT !.curve_state.supply = supply,
                           !.curve_state.reserve = new_reserve],
              <<BankSend(receiver, released, b.st.curve_state.reserve_denom)>>),
           <<attr("from", burner), attr("supply", amount), attr("reserve", released)>>)

\* variant of do_sell that releases the whole reserve
do_sell_drains(st, burner, receiver, amount, ct) ==
    LET b == execute_burn(st, burner, amount) IN
    IF b.err # "ok" THEN b
    ELSE IF b.st.curve_state.supply < amount THEN Err("Overflow", b.st)
    ELSE
    LET supply == b.st.curve_state.supply - amount
        new_reserve == 0
    IN
    IF b.st.curve_state.reserve < new_reserve THEN Err("Overflow", b.st)
    ELSE
    LET released == b.st.curve_state.reserve - new_reserve
    IN add_attributes(
           Ok([b.st EXCEPT !.curve_state.supply = supply,
                           !.curve_state.reserve = new_reserve],
              <<BankSend(receiver, released, b.st.curve_state.reserve_denom)>>),
           <<attr("from", burner), attr("supply", amount), attr("reserve", released)>>)

do_sell(st, burner, receiver, amount, ct) ==
    LET b == execute_burn(st, burner, amount) IN
    IF b.err # "ok" THEN b
    ELSE IF b.st.curve_state.supply < amount THEN Err("Overflow", b.st)
    ELSE
    LET supply == b.st.curve_state.supply - amount
        new_reserve == curve_reserve(ct, st.curve_state.decimals, supply)
    IN
    IF b.st.curve_state.reserve < new_reserve THEN Err("Overflow", b.st)
    ELSE
    LET released == b.st.curve_state.reserve - new_reserve
    IN add_attributes(
           Ok([b.st EXCEPT !.curve_state.supply = supply,
                           !.curve_state.reserve = new_reserve],
              <<BankSend(receiver, released, b.st.curve_state.reserve_denom)>>),
           <<attr("from", burner), attr("supply", amount), attr("reserve", released)>>)

execute_sell(st, sender, funds, amount, ct) ==
    IF nonpayable(funds) # "ok" THEN Err("NonPayable", st)
    ELSE LET res == do_sell(st, sender, sender, amount, ct) IN
         IF res.err # "ok" THEN res
         ELSE add_attributes(res, <<attr("action", "burn")>>)

\* variant of execute_sell_from that sells without touching the allowance
execute_sell_from_free(st, sender, funds, owner, amount, time, ct) ==
    IF nonpayable(funds) # "ok" THEN Err("NonPayable", st)
    ELSE LET res == do_sell(st, owner, sender, amount, ct) IN
         IF res.err # "ok" THEN res
         ELSE add_attributes(res, <<attr("action", "burn_from"), attr("by", sender)>>)

execute_sell_from(st, sender, funds, owner, amount, time, ct) ==
    IF nonpayable(funds) # "ok" THEN Err("NonPayable", st)
    ELSE LET d == deduct_allowance(st, owner, sender, time, amount) IN
         IF d.err # "ok" THEN d
         ELSE LET res == do_sell(d.st, owner, sender, amount, ct) IN
              IF res.err # "ok" THEN res
              ELSE add_attributes(res, <<attr("action", "burn_from"), attr("by", sender)>>)

(***************************************************************************)
(* Claims queue (cw_controllers::Claims).                                  *)
(***************************************************************************)
create_claim(queue, amount, release_at) ==
    Append(queue, [amount |-> amount, release_at |-> release_at])

\* partition of the queue, in order: an entry is sent when it is mature and
\* fits, with everything already taken, under the cap
RECURSIVE claim_fold(_, _, _, _)
claim_fold(queue, time, cap, to_send) ==
    IF queue = <<>> THEN [to_send |-> to_send, waiting |-> <<>>]
    ELSE LET c == Head(queue)
             take == is_expired(c.release_at, time) /\ to_send + c.amount <= cap
             rest == claim_fold(Tail(queue), time, cap,
                                IF take THEN to_send + c.amount ELSE to_send)
         IN IF take THEN rest
            ELSE [to_send |-> rest.to_send, waiting |-> <<c>> \o rest.waiting]

claim_tokens(queue, time, cap) == claim_fold(queue, time, cap, 0)

(***************************************************************************)
(* Staking-derivative engine (staking.rs).  q is what the querier reports: *)
(* q.bonded the delegated total, q.balance the liquid bond_denom balance.  *)
(***************************************************************************)
\* variant of assert_bonds that accepts any delegated total
assert_bonds_skipped(cs, queried) == "ok"

assert_bonds(cs, queried) == IF cs.reserve # queried THEN "BondedMismatch" ELSE "ok"

\* info.funds.iter().find(|x| x.denom == invest.bond_denom)
RECURSIVE find_coin(_, _)
find_coin(funds, denom) ==
    IF funds = <<>> THEN [err |-> "EmptyBalance", amount |-> 0]
    ELSE IF Head(funds).denom = denom THEN [err |-> "ok", amount |-> Head(funds).amount]
    ELSE find_coin(Tail(funds), denom)

bond(st, inv, sender, funds, q, ct) ==
    LET payment == find_coin(funds, inv.bond_denom) IN
    IF payment.err # "ok" THEN Err(payment.err, st)
    ELSE IF assert_bonds(st.curve_state, q.bonded) # "ok" THEN Err("BondedMismatch", st)
    ELSE
    LET reserve == st.curve_state.reserve + payment.amount
        new_supply == curve_supply(ct, st.curve_state.decimals, reserve)
    IN
    IF new_supply < st.curve_state.supply THEN Err("Overflow", st)
    ELSE
    LET minted == new_supply - st.curve_state.supply
        st1 == [st EXCEPT !.curve_state.reserve = reserve,
                          !.curve_state.supply = new_supply]
        m == execute_mint(st1, MOCK_CONTRACT_ADDR, sender, minted)
    IN IF m.err # "ok" THEN m
       ELSE add_attributes(Ok(m.st, <<Delegate(payment.amount, inv.bond_denom)>>),
                           <<attr("action", "bond"), attr("from", sender),
                             attr("bonded", payment.amount), attr("minted", minted)>>)

\* variant of unbond whose claim is released at once
unbond_released_at_once(st, inv, sender, amount, time, q, ct) ==
    IF amount < inv.min_withdrawal THEN Err("UnbondTooSmall", st)
    ELSE
    LET tax == (amount * inv.exit_tax) \div 100
        b == execute_burn(st, sender, amount)
    IN
    IF b.err # "ok" THEN b
    ELSE
    LET m == IF tax > 0 THEN execute_mint(b.st, MOCK_CONTRACT_ADDR, inv.owner, tax)
             ELSE Ok(b.st, <<>>)
    IN
    IF m.err # "ok" THEN m
    ELSE IF assert_bonds(m.st.curve_state, q.bonded) # "ok" THEN Err("BondedMismatch", m.st)
    ELSE IF m.st.curve_state.supply < amount - tax THEN Err("Overflow", m.st)
    ELSE
    LET supply == m.st.curve_state.supply - (amount - tax)
        new_reserve == curve_reserve(ct, st.curve_state.decimals, supply)
    IN
    IF m.st.curve_state.reserve < new_reserve THEN Err("Overflow", m.st)
    ELSE
    LET unbonded == m.st.curve_state.reserve - new_reserve
        st1 == [m.st EXCEPT !.curve_state.supply = supply,
                            !.curve_state.reserve = new_reserve,
                            !.curve_state.claims = @ + unbonded]
        st2 == [st1 EXCEPT !.claims[sender] = create_claim(@, unbonded, time)]
    IN Ok(st2, <<Undelegate(unbonded, inv.bond_denom)>>)

\* variant of unbond without the min_withdrawal floor
unbond_no_min(st, inv, sender, amount, time, q, ct) ==
    LET tax == (amount * inv.exit_tax) \div 100
        b == execute_burn(st, sender, amount)
    IN
    IF b.err # "ok" THEN b
    ELSE
    LET m == IF tax > 0 THEN execute_mint(b.st, MOCK_CONTRACT_ADDR, inv.owner, tax)
             ELSE Ok(b.st, <<>>)
    IN
    IF m.err # "ok" THEN m
    ELSE IF assert_bonds(m.st.curve_state, q.bonded) # "ok" THEN Err("BondedMismatch", m.st)
    ELSE IF m.st.curve_state.supply < amount - tax THEN Err("Overflow", m.st)
    ELSE
    LET supply == m.st.curve_state.supply - (amount - tax)
        new_reserve == curve_reserve(ct, st.curve_state.decimals, supply)
    IN
    IF m.st.curve_state.reserve < new_reserve THEN Err("Overflow", m.st)
    ELSE
    LET unbonded == m.st.curve_state.reserve - new_reserve
        st1 == [m.st EXCEPT !.curve_state.supply = supply,
                            !.curve_state.reserve = new_reserve,
                            !.curve_state.claims = @ + unbonded]
        st2 == [st1 EXCEPT !.claims[sender] =
                    create_claim(@, unbonded, time + inv.unbonding_period)]
    IN Ok(st2, <<Undelegate(unbonded, inv.bond_denom)>>)

\* variant of unbond that takes the whole amount, tax included, off the curve
unbond_tax_from_reserve(st, inv, sender, amount, time, q, ct) ==
    IF amount < inv.min_withdrawal THEN Err("UnbondTooSmall", st)
    ELSE
    LET tax == (amount * inv.exit_tax) \div 100
        b == execute_burn(st, sender, amount)
    IN
    IF b.err # "ok" THEN b
    ELSE
    LET m == IF tax > 0 THEN execute_mint(b.st, MOCK_CONTRACT_ADDR, inv.owner, tax)
             ELSE Ok(b.st, <<>>)
    IN
    IF m.err # "ok" THEN m
    ELSE IF assert_bonds(m.st.curve_state, q.bonded) # "ok" THEN Err("BondedMismatch", m.st)
    ELSE IF amount < tax THEN Err("Overflow", m.st)
    ELSE
    LET amount_minus_tax == amount IN
    IF m.st.curve_state.supply < amount_minus_tax THEN Err("Overflow", m.st)
    ELSE
    LET supply == m.st.curve_state.supply - amount_minus_tax
        new_reserve == curve_reserve(ct, st.curve_state.decimals, supply)
    IN
    IF m.st.curve_state.reserve < new_reserve THEN Err("Overflow", m.st)
    ELSE
    LET unbonded == m.st.curve_state.reserve - new_reserve
        st1 == [m.st EXCEPT !.curve_state.supply = supply,
                            !.curve_state.reserve = new_reserve,
                            !.curve_state.claims = @ + unbonded]
        st2 == [st1 EXCEPT !.claims[sender] =
                    create_claim(@, unbonded, time + inv.unbonding_period)]
    IN add_attributes(Ok(st2, <<Undelegate(unbonded, inv.bond_denom)>>),
                      <<attr("action", "unbond"), attr("to", sender),
                        attr("unbonded", unbonded), attr("burnt", amount)>>)

\* variant of unbond that never mints the tax to the owner
unbond_tax_dropped(st, inv, sender, amount, time, q, ct) ==
    IF amount < inv.min_withdrawal THEN Err("UnbondTooSmall", st)
    ELSE
    LET tax == (amount * inv.exit_tax) \div 100
        b == execute_burn(st, sender, amount)
    IN
    IF b.err # "ok" THEN b
    ELSE
    LET m == Ok(b.st, <<>>)
    IN
    IF m.err # "ok" THEN m
    ELSE IF assert_bonds(m.st.curve_state, q.bonded) # "ok" THEN Err("BondedMismatch", m.st)
    ELSE IF amount < tax THEN Err("Overflow", m.st)
    ELSE
    LET amount_minus_tax == amount - tax IN
    IF m.st.curve_state.supply < amount_minus_tax THEN Err("Overflow", m.st)
    ELSE
    LET supply == m.st.curve_state.supply - amount_minus_tax
        new_reserve == curve_reserve(ct, st.curve_state.decimals, supply)
    IN
    IF m.st.curve_state.reserve < new_reserve THEN Err("Overflow", m.st)
    ELSE
    LET unbonded == m.st.curve_state.reserve - new_reserve
        st1 == [m.st EXCEPT !.curve_state.supply = supply,
                            !.curve_state.reserve = new_reserve,
                            !.curve_state.claims = @ + unbonded]
        st2 == [st1 EXCEPT !.claims[sender] =
                    create_claim(@, unbonded, time + inv.unbonding_period)]
    IN add_attributes(Ok(st2, <<Undelegate(unbonded, inv.bond_denom)>>),
                      <<attr("action", "unbond"), attr("to", sender),
                        attr("unbonded", unbonded), attr("burnt", amount)>>)

unbond(st, inv, sender, amount, time, q, ct) ==
    IF amount < inv.min_withdrawal THEN Err("UnbondTooSmall", st)
    ELSE
    LET tax == (amount * inv.exit_tax) \div 100
        b == execute_burn(st, sender, amount)
    IN
    IF b.err # "ok" THEN b
    ELSE
    LET m == IF tax > 0 THEN execute_mint(b.st, MOCK_CONTRACT_ADDR, inv.owner, tax)
             ELSE Ok(b.st, <<>>)
    IN
    IF m.err # "ok" THEN m
    ELSE IF assert_bonds(m.st.curve_state, q.bonded) # "ok" THEN Err("BondedMismatch", m.st)
    ELSE IF amount < tax THEN Err("Overflow", m.st)
    ELSE
    LET amount_minus_tax == amount - tax IN
    IF m.st.curve_state.supply < amount_minus_tax THEN Err("Overflow", m.st)
    ELSE
    LET supply == m.st.curve_state.supply - amount_minus_tax
        new_reserve == curve_reserve(ct, st.curve_state.decimals, supply)
    IN
    IF m.st.curve_state.reserve < new_reserve THEN Err("Overflow", m.st)
    ELSE
    LET unbonded == m.st.curve_state.reserve - new_reserve
        st1 == [m.st EXCEPT !.curve_state.supply = supply,
                            !.curve_state.reserve = new_reserve,
                            !.curve_state.claims = @ + unbonded]
        st2 == [st1 EXCEPT !.claims[sender] =
                    create_claim(@, unbonded, time + inv.unbonding_period)]
    IN add_attributes(Ok(st2, <<Undelegate(unbonded, inv.bond_denom)>>),
                      <<attr("action", "unbond"), attr("to", sender),
                        attr("unbonded", unbonded), attr("burnt", amount)>>)

\* variant of claim that leaves CurveState.claims as it was
claim_total_kept(st, inv, sender, time, q) ==
    IF q.balance < inv.min_withdrawal THEN Err("BalanceTooSmall", st)
    ELSE
    LET r == claim_tokens(st.claims[sender], time, q.balance)
        st1 == [st EXCEPT !.claims[sender] = r.waiting]
    IN
    IF r.to_send = 0 THEN Err("NothingToClaim", st1)
    ELSE Ok(st1, <<BankSend(sender, r.to_send, inv.bond_denom)>>)

\* variant of claim that pays the owner of the contract
claim_pays_owner(st, inv, sender, time, q) ==
    IF q.balance < inv.min_withdrawal THEN Err("BalanceTooSmall", st)
    ELSE
    LET r == claim_tokens(st.claims[sender], time, q.balance)
        st1 == [st EXCEPT !.claims[sender] = r.waiting]
    IN
    IF r.to_send = 0 THEN Err("NothingToClaim", st1)
    ELSE IF st1.curve_state.claims < r.to_send THEN Err("Overflow", st1)
    ELSE Ok([st1 EXCEPT !.curve_state.claims = @ - r.to_send],
            <<BankSend(inv.owner, r.to_send, inv.bond_denom)>>)

\* variant of claim without the min_withdrawal floor on the liquid balance
claim_no_min(st, inv, sender, time, q) ==
    LET r == claim_tokens(st.claims[sender], time, q.balance)
        st1 == [st EXCEPT !.claims[sender] = r.waiting]
    IN
    IF r.to_send = 0 THEN Err("NothingToClaim", st1)
    ELSE IF st1.curve_state.claims < r.to_send THEN Err("Overflow", st1)
    ELSE Ok([st1 EXCEPT !.curve_state.claims = @ - r.to_send],
            <<BankSend(sender, r.to_send, inv.bond_denom)>>)

claim(st, inv, sender, time, q) ==
    IF q.balance < inv.min_withdrawal THEN Err("BalanceTooSmall", st)
    ELSE
    LET r == claim_tokens(st.claims[sender], time, q.balance)
        st1 == [st EXCEPT !.claims[sender] = r.waiting]
    IN
    IF r.to_send = 0 THEN Err("NothingToClaim", st1)
    ELSE IF st1.curve_state.claims < r.to_send THEN Err("Overflow", st1)
    ELSE add_attributes(Ok([st1 EXCEPT !.curve_state.claims = @ - r.to_send],
                           <<BankSend(sender, r.to_send, inv.bond_denom)>>),
                        <<attr("action", "claim"), attr("from", sender),
                          attr("amount", r.to_send)>>)

\* variant of reinvest that issues the callback before the withdrawal
reinvest_bond_first(st, inv, sender) ==
    Ok(st, <<WasmExecuteBondAllTokens, WithdrawDelegatorReward>>)

reinvest(st, inv, sender) ==
    Ok(st, <<WithdrawDelegatorReward, WasmExecuteBondAllTokens>>)

\* variant of _bond_all_tokens that delegates the whole liquid balance
_bond_all_tokens_claims_too(st, inv, sender, q) ==
    IF sender # MOCK_CONTRACT_ADDR THEN Err("Unauthorized", st)
    ELSE IF q.balance < inv.min_withdrawal THEN Ok(st, <<>>)
    ELSE add_attributes(Ok([st EXCEPT !.curve_state.reserve = @ + q.balance],
                           <<Delegate(q.balance, inv.bond_denom)>>),
                        <<attr("action", "reinvest"), attr("bonded", q.balance)>>)

\* variant of _bond_all_tokens that any caller may invoke
_bond_all_tokens_open(st, inv, sender, q) ==
    IF q.balance < st.curve_state.claims THEN Ok(st, <<>>)
    ELSE
    LET balance == q.balance - st.curve_state.claims IN
    IF balance < inv.min_withdrawal THEN Ok(st, <<>>)
    ELSE add_attributes(Ok([st EXCEPT !.curve_state.reserve = @ + balance],
                           <<Delegate(balance, inv.bond_denom)>>),
                        <<attr("action", "reinvest"), attr("bonded", balance)>>)

\* variant of _bond_all_tokens that skips a leftover equal to min_withdrawal
_bond_all_tokens_strict(st, inv, sender, q) ==
    IF sender # MOCK_CONTRACT_ADDR THEN Err("Unauthorized", st)
    ELSE IF q.balance < st.curve_state.claims THEN Ok(st, <<>>)
    ELSE
    LET balance == q.balance - st.curve_state.claims IN
    IF balance <= inv.min_withdrawal THEN Ok(st, <<>>)
    ELSE add_attributes(Ok([st EXCEPT !.curve_state.reserve = @ + balance],
                           <<Delegate(balance, inv.bond_denom)>>),
                        <<attr("action", "reinvest"), attr("bonded", balance)>>)

\* variant of _bond_all_tokens that keeps min_withdrawal liquid
_bond_all_tokens_less_min(st, inv, sender, q) ==
    IF sender # MOCK_CONTRACT_ADDR THEN Err("Unauthorized", st)
    ELSE IF q.balance < st.curve_state.claims THEN Ok(st, <<>>)
    ELSE
    LET balance == q.balance - st.curve_state.claims IN
    IF balance < inv.min_withdrawal THEN Ok(st, <<>>)
    ELSE add_attributes(
             Ok([st EXCEPT !.curve_state.reserve = @ + balance - inv.min_withdrawal],
                <<Delegate(balance - inv.min_withdrawal, inv.bond_denom)>>),
             <<attr("action", "reinvest"), attr("bonded", balance - inv.min_withdrawal)>>)

_bond_all_tokens(st, inv, sender, q) ==
    IF sender # MOCK_CONTRACT_ADDR THEN Err("Unauthorized", st)
    ELSE IF q.balance < st.curve_state.claims THEN Ok(st, <<>>)
    ELSE
    LET balance == q.balance - st.curve_state.claims IN
    IF balance < inv.min_withdrawal THEN Ok(st, <<>>)
    ELSE add_attributes(Ok([st EXCEPT !.curve_state.reserve = @ + balance],
                           <<Delegate(balance, inv.bond_denom)>>),
                        <<attr("action", "reinvest"), attr("bonded", balance)>>)

(***************************************************************************)
(* The host: it credits the attached funds before the handler runs, and    *)
(* after a successful return carries out the effects in order; an effect   *)
(* it cannot carry out aborts the whole invocation.                        *)
(***************************************************************************)
HostState == [bank |-> bank, bonded |-> bonded, unbonding |-> unbonding,
              rewards |-> 0, callbacks |-> callbacks, ok |-> TRUE]

RECURSIVE credit(_, _)
credit(bk, funds) ==
    IF funds = <<>> THEN bk
    ELSE IF Head(funds).denom \notin DOMAIN bk THEN credit(bk, Tail(funds))
    ELSE credit([bk EXCEPT ![Head(funds).denom] = @ + Head(funds).amount], Tail(funds))

host_apply_one(h, m, time, period) ==
    CASE m.type = "send" ->
            IF h.bank[m.denom] < m.amount THEN [h EXCEPT !.ok = FALSE]
            ELSE [h EXCEPT !.bank[m.denom] = @ - m.amount]
      [] m.type = "delegate" ->
            IF h.bank[m.denom] < m.amount THEN [h EXCEPT !.ok = FALSE]
            ELSE [h EXCEPT !.bank[m.denom] = @ - m.amount, !.bonded = @ + m.amount]
      [] m.type = "undelegate" ->
            IF h.bonded < m.amount THEN [h EXCEPT !.ok = FALSE]
            ELSE [h EXCEPT !.bonded = @ - m.amount,
                           !.unbonding[time + period] = @ + m.amount]
      [] m.type = "withdraw" ->
            [h EXCEPT !.bank[BondDenom] = @ + h.rewards, !.rewards = 0]
      [] m.type = "execute" ->
            [h EXCEPT !.callbacks = @ + 1]
      [] m.type = "receive" -> h

RECURSIVE host_apply(_, _, _, _)
host_apply(h, msgs, time, period) ==
    IF msgs = <<>> \/ ~h.ok THEN h
    ELSE host_apply(host_apply_one(h, Head(msgs), time, period), Tail(msgs), time, period)

\* what the querier answers during an invocation that carries `funds`
Querier(funds) == [bonded |-> bonded, balance |-> credit(bank, funds)[invest.bond_denom]]

(***************************************************************************)
(* Inputs.                                                                 *)
(***************************************************************************)
Amounts == 0..MaxAmount
UnbondingPeriods == {m.unbonding_period : m \in InstantiateMsgs}
PeriodMax == CHOOSE p \in UnbondingPeriods : \A o \in UnbondingPeriods : o <= p
HostTimes == 0..(MaxTime + PeriodMax)
AllPairs == Accounts \X Accounts
FundsChoices ==
    {<<>>}
    \cup {<<Coin(a, d)>> : a \in 0..MaxPay, d \in Denoms}
    \cup {<<Coin(1, JunkDenom), Coin(a, BondDenom)>> : a \in 1..MaxPay}
ExpiryChoices == {NoExpiryGiven, 1}

\* no delegation, unbonding, claim or callback is outstanding
StakingIdle(st, h) ==
    /\ h.bonded = 0
    /\ h.callbacks = 0
    /\ st.curve_state.claims = 0
    /\ \A a \in Accounts : st.claims[a] = <<>>
    /\ \A t \in DOMAIN h.unbonding : h.unbonding[t] = 0

\* The explored part of the state space: amounts up to the bounds, and
\* allowances held only while the staking side is idle (the two are explored
\* one at a time, every operation in both).
InBounds(st, h) ==
    /\ (\E p \in AllPairs : st.allowances[p].present) => StakingIdle(st, h)
    /\ st.curve_state.reserve <= MaxReserve
    /\ \A d \in Denoms : h.bank[d] <= MaxReserve
    /\ h.bonded <= MaxReserve
    /\ SumOver([a \in Accounts |-> Len(st.claims[a])], Accounts) <= MaxClaims
    /\ \A p \in AllPairs : st.allowances[p].allowance <= MaxAmount
    /\ h.callbacks <= MaxCallbacks

(***************************************************************************)
(* One invocation of execute: the handler's result `res` is committed,     *)
(* together with the host's execution of its effects, when the handler     *)
(* returned Ok and the host could carry out every effect; otherwise the    *)
(* invocation is discarded and leaves every variable as it was.            *)
(***************************************************************************)
Outcome(op, sender, funds, reward, res) ==
    LET h0 == [HostState EXCEPT !.bank = credit(bank, funds), !.rewards = reward]
        h1 == IF op = "_bond_all_tokens" /\ sender = MOCK_CONTRACT_ADDR
              THEN [h0 EXCEPT !.callbacks = @ - 1] ELSE h0
        h == host_apply(h1, res.msgs, now, invest.unbonding_period)
        committed == res.err = "ok" /\ h.ok
    IN [committed |-> committed,
        st |-> IF committed THEN res.st ELSE Storage,
        host |-> IF committed THEN h ELSE HostState]

Invoke(op, sender, funds, reward, res) ==
    \E o \in {Outcome(op, sender, funds, reward, res)} :
       /\ o.committed
       /\ InBounds(o.st, o.host)
       /\ balances' = o.st.balances
       /\ total_supply' = o.st.total_supply
       /\ allowances' = o.st.allowances
       /\ curve_state' = o.st.curve_state
       /\ claims' = o.st.claims
       /\ bank' = o.host.bank
       /\ bonded' = o.host.bonded
       /\ unbonding' = o.host.unbonding
       /\ callbacks' = o.host.callbacks
       /\ UNCHANGED <<invest, curve_type, now>>

Init ==
    /\ balances = [a \in Accounts |-> 0]
    /\ total_supply = 0
    /\ allowances = [p \in AllPairs |-> NoAllowance]
    /\ claims = [a \in Accounts |-> <<>>]
    /\ \E msg \in InstantiateMsgs :
          /\ curve_type = msg.curve_type
          /\ curve_state = [reserve |-> 0, supply |-> 0, reserve_denom |-> msg.reserve_denom,
                            decimals |-> msg.decimals, claims |-> 0]
          /\ invest = [owner |-> CREATOR, bond_denom |-> BondDenom,
                       unbonding_period |-> msg.unbonding_period,
                       exit_tax |-> msg.exit_tax, min_withdrawal |-> msg.min_withdrawal]
    /\ bank = [d \in Denoms |-> 0]
    /\ bonded = 0
    /\ unbonding = [t \in HostTimes |-> 0]
    /\ callbacks = 0
    /\ now = 0

(***************************************************************************)
(* The messages of do_execute.                                             *)
(***************************************************************************)
Buy ==
    \E sender \in Accounts, funds \in FundsChoices :
        Invoke("buy", sender, funds, 0,
               execute_buy(Storage, sender, funds, curve_type))

Burn ==
    \E sender \in Accounts, funds \in {<<>>, <<Coin(1, BondDenom)>>}, amount \in Amounts :
        Invoke("burn", sender, funds, 0,
               execute_sell(Storage, sender, funds, amount, curve_type))

BurnFrom ==
    \E sender \in Accounts, owner \in Accounts,
       funds \in {<<>>, <<Coin(1, BondDenom)>>}, amount \in Amounts :
        Invoke("burn_from", sender, funds, 0,
               execute_sell_from(Storage, sender, funds, owner, amount, now, curve_type))

Bond ==
    \E sender \in Accounts, funds \in FundsChoices :
        Invoke("bond", sender, funds, 0,
               bond(Storage, invest, sender, funds, Querier(funds), curve_type))

Unbond ==
    \E sender \in Accounts, amount \in Amounts :
        Invoke("unbond", sender, <<>>, 0,
               unbond(Storage, invest, sender, amount, now, Querier(<<>>), curve_type))

Claim ==
    \E sender \in Accounts :
        Invoke("claim", sender, <<>>, 0,
               claim(Storage, invest, sender, now, Querier(<<>>)))

Reinvest ==
    \E sender \in Accounts, reward \in 0..MaxReward :
        /\ reward > 0 => bonded > 0
        /\ Invoke("reinvest", sender, <<>>, reward, reinvest(Storage, invest, sender))

\* _BondAllTokens, sent by an outside account or delivered by the host as
\* the self-invocation a Reinvest emitted
BondAllTokens ==
    \E sender \in Accounts \cup {MOCK_CONTRACT_ADDR} :
        /\ sender = MOCK_CONTRACT_ADDR => callbacks > 0
        /\ Invoke("_bond_all_tokens", sender, <<>>, 0,
                  _bond_all_tokens(Storage, invest, sender, Querier(<<>>)))

Transfer ==
    \E sender \in Accounts, recipient \in Accounts, amount \in Amounts :
        Invoke("transfer", sender, <<>>, 0,
               execute_transfer(Storage, sender, recipient, amount))

TransferFrom ==
    \E sender \in Accounts, owner \in Accounts, amount \in Amounts :
        Invoke("transfer_from", sender, <<>>, 0,
               execute_transfer_from(Storage, sender, owner, sender, now, amount))

Send ==
    \E sender \in Accounts, contract \in Accounts, amount \in Amounts :
        Invoke("send", sender, <<>>, 0,
               execute_send(Storage, sender, contract, amount))

SendFrom ==
    \E sender \in Accounts, owner \in Accounts, amount \in Amounts :
        Invoke("send_from", sender, <<>>, 0,
               execute_send_from(Storage, sender, owner, sender, now, amount))

IncreaseAllowance ==
    \E sender \in Accounts, spender \in Accounts, amount \in Amounts, e \in ExpiryChoices :
        Invoke("increase_allowance", sender, <<>>, 0,
               execute_increase_allowance(Storage, sender, spender, amount, e))

DecreaseAllowance ==
    \E sender \in Accounts, spender \in Accounts, amount \in Amounts :
        Invoke("decrease_allowance", sender, <<>>, 0,
               execute_decrease_allowance(Storage, sender, spender, amount, NoExpiryGiven))

(***************************************************************************)
(* The environment: block time passes (unbonding completes at its time),   *)
(* and the validator pays staking reward.                                  *)
(***************************************************************************)
Tick ==
    /\ now < MaxTime
    /\ bank[BondDenom] + unbonding[now + 1] <= MaxReserve
    /\ now' = now + 1
    /\ bank' = [bank EXCEPT ![BondDenom] = @ + unbonding[now + 1]]
    /\ unbonding' = [unbonding EXCEPT ![now + 1] = 0]
    /\ UNCHANGED <<balances, total_supply, allowances, curve_state, claims, invest,
                   curve_type, bonded, callbacks>>

Next ==
    \/ Buy
    \/ Burn
    \/ BurnFrom
    \/ Bond
    \/ Unbond
    \/ Claim
    \/ Reinvest
    \/ BondAllTokens
    \/ Transfer
    \/ TransferFrom
    \/ Send
    \/ SendFrom
    \/ IncreaseAllowance
    \/ DecreaseAllowance
    \/ Tick

Spec == Init /\ [][Next]_vars

(***************************************************************************)
(* Properties.  A property of a handler is stated over every reachable     *)
(* state and every input of the handler at that state.                     *)
(***************************************************************************)
Queried == 0..(MaxReserve + 1)
Liquid == bank[invest.bond_denom]
SumBalances == SumOver(balances, Accounts)
Matured(queue, time) == SelectSeq(queue, LAMBDA c : c.release_at <= time)
AmountsOf(queue) == [i \in 1..Len(queue) |-> queue[i].amount]

\* the queue without the entries at the positions in I
Without(queue, I) ==
    LET idx == SelectSeq([i \in 1..Len(queue) |-> i], LAMBDA i : i \notin I)
    IN [k \in 1..Len(idx) |-> queue[idx[k]]]

\* the invocation was discarded: nothing of the storage or the host changed
Discarded(o) == ~o.committed /\ o.st = Storage /\ o.host = HostState

\* C1: after every operation the sum of all account balances equals the
\* ledger's total_supply.
C1_BalancesSumToSupply == SumBalances = total_supply

\* C1 witness: tokens are held by both accounts after mints, a transfer and
\* an unbond that burnt part of the supply.
C1_Witness ==
    /\ SumBalances = total_supply
    /\ \A a \in Accounts : balances[a] > 0
    /\ \E a \in Accounts : claims[a] # <<>>

\* C2: after any sequence of successful operations whose effects the host
\* has applied, the cached CurveState.reserve equals the delegated total.
C2_ReserveIsDelegatedTotal == curve_state.reserve = bonded

\* C3: after every successful operation the pair (reserve, supply) lies on
\* the configured curve: supply = supply_for(reserve) or
\* reserve = reserve_for(supply).
C3_OnCurve ==
    \/ curve_state.supply = curve_supply(curve_type, curve_state.decimals, curve_state.reserve)
    \/ curve_state.reserve = curve_reserve(curve_type, curve_state.decimals, curve_state.supply)

\* C4: the amounts of all entries in the claims queue sum to
\* CurveState.claims.
C4_QueueSumsToClaims ==
    SumOver([a \in Accounts |-> SumSeq(claims[a])], Accounts) = curve_state.claims

\* C4 witness: entries are queued, and a Claim that pays part of them
\* leaves the rest summing to what remains of CurveState.claims.
C4_Witness ==
    \E a \in Accounts :
        LET r == claim(Storage, invest, a, now, Querier(<<>>)) IN
        /\ r.err = "ok"
        /\ r.st.claims[a] # <<>>
        /\ r.st.curve_state.claims < curve_state.claims
        /\ SumSeq(r.st.claims[a]) = r.st.curve_state.claims

\* C5: a Buy with payment p immediately followed by a Sell of exactly the
\* amount that Buy minted releases at most p.
C5_BuySellReleasesAtMostPayment ==
    \A sender \in Accounts, p \in 1..MaxPay :
        LET b == execute_buy(Storage, sender,
                             <<Coin(p, curve_state.reserve_denom)>>, curve_type)
        IN b.err = "ok" =>
           LET minted == b.st.total_supply - total_supply
               s == execute_sell(b.st, sender, <<>>, minted, curve_type)
           IN s.err = "ok" => s.msgs[1].amount <= p

\* C6 (as amended): whenever the queried delegated total differs from the
\* cached reserve, Bond and Unbond fail, nothing of the state changes and no
\* effect is emitted; the error is BondedMismatch once the checks made
\* before the comparison pass (Bond: a coin of the bond denomination is
\* attached; Unbond: the amount is at least min_withdrawal, not zero and
\* within the caller's balance), and the error of the earlier check otherwise.
C6_MismatchFailsClosed ==
    \A sender \in Accounts, qb \in Queried :
        qb # curve_state.reserve =>
            /\ \A funds \in FundsChoices :
                 LET r == bond(Storage, invest, sender, funds,
                               [Querier(funds) EXCEPT !.bonded = qb], curve_type)
                 IN /\ r.err # "ok"
                    /\ r.msgs = <<>>
                    /\ Discarded(Outcome("bond", sender, funds, 0, r))
                    /\ r.err = IF find_coin(funds, invest.bond_denom).err = "ok"
                               THEN "BondedMismatch" ELSE "EmptyBalance"
            /\ \A amount \in Amounts :
                 LET r == unbond(Storage, invest, sender, amount, now,
                                 [Querier(<<>>) EXCEPT !.bonded = qb], curve_type)
                 IN /\ r.err # "ok"
                    /\ r.msgs = <<>>
                    /\ Discarded(Outcome("unbond", sender, <<>>, 0, r))
                    /\ r.err = IF amount < invest.min_withdrawal THEN "UnbondTooSmall"
                               ELSE IF amount = 0 THEN "InvalidZeroAmount"
                               ELSE IF balances[sender] < amount THEN "Overflow"
                               ELSE "BondedMismatch"

\* C6 witness: the delegated total differs from the cached reserve; a Bond
\* with a payment and an Unbond of tokens the caller holds both end in
\* BondedMismatch, the Unbond after its burn ran on the discarded storage.
C6_Witness ==
    /\ bonded # curve_state.reserve
    /\ \E sender \in Accounts, amount \in Amounts :
          LET rb == bond(Storage, invest, sender, <<Coin(1, BondDenom)>>,
                         Querier(<<Coin(1, BondDenom)>>), curve_type)
              ru == unbond(Storage, invest, sender, amount, now, Querier(<<>>), curve_type)
          IN /\ rb.err = "BondedMismatch"
             /\ ru.err = "BondedMismatch"
             /\ ru.st.total_supply < total_supply

\* C6 (as stated): whenever the queried delegated total differs from the
\* cached reserve, Bond and Unbond fail with BondedMismatch and change nothing.
C6_MismatchAlwaysBondedMismatch ==
    bonded # curve_state.reserve =>
        \A sender \in Accounts :
            /\ \A funds \in FundsChoices :
                 LET r == bond(Storage, invest, sender, funds, Querier(funds), curve_type)
                 IN r.err = "BondedMismatch"
                    /\ Discarded(Outcome("bond", sender, funds, 0, r))
            /\ \A amount \in Amounts :
                 LET r == unbond(Storage, invest, sender, amount, now,
                                 Querier(<<>>), curve_type)
                 IN r.err = "BondedMismatch"
                    /\ Discarded(Outcome("unbond", sender, <<>>, 0, r))

\* C7: an Unbond of less than min_withdrawal fails with UnbondTooSmall
\* whatever the caller's balance and the delegated total, and changes nothing.
C7_UnbondBelowMinimum ==
    \A sender \in Accounts, amount \in Amounts, qb \in Queried :
        amount < invest.min_withdrawal =>
            LET r == unbond(Storage, invest, sender, amount, now,
                            [Querier(<<>>) EXCEPT !.bonded = qb], curve_type)
            IN /\ r.err = "UnbondTooSmall"
               /\ r.st = Storage
               /\ r.msgs = <<>>
               /\ Discarded(Outcome("unbond", sender, <<>>, 0, r))

\* C7 witness: the caller holds the tokens and the delegated total matches
\* the reserve, yet the Unbond of a positive amount below min_withdrawal is
\* refused.
C7_Witness ==
    \E sender \in Accounts, amount \in Amounts :
        /\ 0 < amount
        /\ amount < invest.min_withdrawal
        /\ amount <= balances[sender]
        /\ bonded = curve_state.reserve
        /\ unbond(Storage, invest, sender, amount, now, Querier(<<>>), curve_type).err
               = "UnbondTooSmall"

\* C8: a successful Claim removes only entries of the caller whose
\* release_at has passed; the amount paid is at most the liquid balance of
\* the bond denomination and at most the sum of the caller's matured
\* entries; CurveState.claims decreases by exactly the amount paid, and
\* exactly one transfer of that amount goes to the caller.
C8_ClaimPaysMaturedEntries ==
    \A sender \in Accounts :
        LET r == claim(Storage, invest, sender, now, Querier(<<>>))
            queue == claims[sender]
        IN r.err = "ok" =>
           \E I \in SUBSET (1..Len(queue)) :
               LET paid == SumOver(AmountsOf(queue), I) IN
               /\ \A i \in I : queue[i].release_at <= now
               /\ r.st.claims = [claims EXCEPT ![sender] = Without(queue, I)]
               /\ paid <= Liquid
               /\ paid <= SumSeq(Matured(queue, now))
               /\ r.st.curve_state = [curve_state EXCEPT !.claims = @ - paid]
               /\ r.msgs = <<BankSend(sender, paid, invest.bond_denom)>>
               /\ r.st.balances = balances
               /\ r.st.total_supply = total_supply

\* C8 witness: the caller, who is not the owner, has two entries, one
\* released and one not; the Claim succeeds, pays the first and keeps the
\* second.
C8_Witness ==
    \E sender \in Accounts \ {invest.owner} :
        LET r == claim(Storage, invest, sender, now, Querier(<<>>)) IN
        /\ Len(claims[sender]) = 2
        /\ claims[sender][1].release_at <= now
        /\ claims[sender][2].release_at > now
        /\ r.err = "ok"
        /\ r.st.claims[sender] = <<claims[sender][2]>>
        /\ r.msgs = <<BankSend(sender, claims[sender][1].amount, invest.bond_denom)>>

\* C9: Claim fails and leaves the claims queue and CurveState unchanged when
\* the liquid balance is below min_withdrawal (BalanceTooSmall) or when the
\* caller has no entry that is both matured and payable (NothingToClaim); in
\* particular a Claim before maturity fails even when liquidity is sufficient.
C9_ClaimRefused ==
    \A sender \in Accounts :
        LET r == claim(Storage, invest, sender, now, Querier(<<>>))
            queue == claims[sender]
            payable == \E i \in 1..Len(queue) :
                           queue[i].release_at <= now /\ queue[i].amount <= Liquid
        IN /\ Liquid < invest.min_withdrawal =>
                /\ r.err = "BalanceTooSmall"
                /\ Discarded(Outcome("claim", sender, <<>>, 0, r))
           /\ (Liquid >= invest.min_withdrawal /\ ~payable) =>
                /\ r.err = "NothingToClaim"
                /\ r.st = Storage
                /\ Discarded(Outcome("claim", sender, <<>>, 0, r))

\* C9 witness: the caller has an entry not yet released and the contract
\* holds at least min_withdrawal and at least the entry's amount, yet the
\* Claim ends in NothingToClaim.
C9_Witness ==
    \E sender \in Accounts :
        /\ claims[sender] # <<>>
        /\ \A i \in 1..Len(claims[sender]) :
              /\ claims[sender][i].release_at > now
              /\ 0 < claims[sender][i].amount
              /\ claims[sender][i].amount <= Liquid
        /\ Liquid >= invest.min_withdrawal
        /\ claim(Storage, invest, sender, now, Querier(<<>>)).err = "NothingToClaim"

\* C10: when the caller has claim entries, all of them matured, and the
\* liquid balance is at least min_withdrawal and at least their sum, Claim
\* succeeds, pays exactly that sum to the caller and leaves the caller with
\* no claim entries.
C10_ClaimPaysAllMatured ==
    \A sender \in Accounts :
        LET r == claim(Storage, invest, sender, now, Querier(<<>>))
            queue == claims[sender]
        IN (/\ queue # <<>>
            /\ Matured(queue, now) = queue
            /\ Liquid >= invest.min_withdrawal
            /\ Liquid >= SumSeq(queue))
           => /\ r.err = "ok"
              /\ r.msgs = <<BankSend(sender, SumSeq(queue), invest.bond_denom)>>
              /\ r.st.claims[sender] = <<>>

UnbondQueues(a) ==
    LET queue == claims[a]
        e == claims'[a][Len(queue) + 1]
    IN /\ Len(claims'[a]) = Len(queue) + 1
       /\ claims' = [claims EXCEPT ![a] = Append(queue, e)]
       /\ e.release_at = now + invest.unbonding_period
       /\ e.amount = curve_state.reserve - curve_state'.reserve
       /\ curve_state'.claims = curve_state.claims + e.amount
       /\ \E amount \in Amounts :
             LET r == unbond(Storage, invest, a, amount, now, Querier(<<>>), curve_type)
             IN r.err = "ok" /\ r.st.claims = claims'

\* a step in which a successful Claim by a released entries of a, all of
\* them matured, and paid their amounts to a
ClaimReleases(a) ==
    LET queue == claims[a]
        r == claim(Storage, invest, a, now, Querier(<<>>))
    IN \E I \in SUBSET (1..Len(queue)) :
          LET paid == SumOver(AmountsOf(queue), I) IN
          /\ I # {}
          /\ claims' = [claims EXCEPT ![a] = Without(queue, I)]
          /\ \A i \in I : queue[i].release_at <= now
          /\ r.err = "ok"
          /\ r.msgs = <<BankSend(a, paid, invest.bond_denom)>>
          /\ bank' = [bank EXCEPT ![invest.bond_denom] = @ - paid]
          /\ curve_state'.claims = curve_state.claims - paid

\* C12: every claim entry goes none -> pending -> matured -> released: the
\* queue changes only by a successful Unbond appending one entry with
\* release_at = time of the Unbond + unbonding_period, or by a successful
\* Claim of the owner of the entries removing entries at or after their
\* release_at and paying exactly their amounts to that account; an entry is
\* never altered, so it is paid at most once and the total paid to an
\* account never exceeds the total queued for it.
C12_ClaimLifecycle ==
    [][claims' # claims => \E a \in Accounts : UnbondQueues(a) \/ ClaimReleases(a)]_vars

\* C12 witness: an entry queued by an Unbond has reached its release time
\* and the Claim of its owner releases it, leaving the owner's queue empty.
C12_Witness ==
    \E a \in Accounts :
        LET r == claim(Storage, invest, a, now, Querier(<<>>)) IN
        /\ claims[a] # <<>>
        /\ \A i \in 1..Len(claims[a]) :
              claims[a][i].release_at = now /\ claims[a][i].amount > 0
        /\ r.err = "ok"
        /\ r.st.claims[a] = <<>>
        /\ unbonding[now] = 0

\* what the querier answers when the liquid bond-denomination balance is bal
QuerierWith(bal) == [Querier(<<>>) EXCEPT !.balance = bal]

\* C13: _BondAllTokens invoked by any caller other than the contract itself
\* fails with Unauthorized, changes no state and emits no effect, whatever
\* the liquid balance and the pending claims are.
C13_BondAllTokensUnauthorized ==
    \A sender \in Accounts, bal \in Queried :
        LET r == _bond_all_tokens(Storage, invest, sender, QuerierWith(bal)) IN
        /\ r.err = "Unauthorized"
        /\ r.st = Storage
        /\ r.msgs = <<>>
        /\ Discarded(Outcome("_bond_all_tokens", sender, <<>>, 0, r))

\* C13 witness: liquid funds beyond the pending claims are waiting, the
\* contract's own call would delegate them, and an account's call is refused.
C13_Witness ==
    /\ curve_state.claims > 0
    /\ Liquid >= curve_state.claims + invest.min_withdrawal
    /\ _bond_all_tokens(Storage, invest, MOCK_CONTRACT_ADDR, Querier(<<>>)).msgs # <<>>
    /\ \A sender \in Accounts :
          _bond_all_tokens(Storage, invest, sender, Querier(<<>>)).err = "Unauthorized"

\* C14: _BondAllTokens invoked by the contract itself when the liquid
\* balance is below CurveState.claims, or when liquid balance - claims is
\* below min_withdrawal, succeeds with no effects and leaves CurveState
\* unchanged; when liquid balance - claims equals min_withdrawal it is not a
\* no-op.
C14_BondAllTokensNoOp ==
    \A bal \in Queried :
        LET r == _bond_all_tokens(Storage, invest, MOCK_CONTRACT_ADDR, QuerierWith(bal)) IN
        /\ (bal < curve_state.claims \/ bal - curve_state.claims < invest.min_withdrawal)
              => r.err = "ok" /\ r.msgs = <<>> /\ r.st = Storage
        /\ bal - curve_state.claims = invest.min_withdrawal
              => r.err = "ok" /\ r.msgs # <<>> /\ r.st.curve_state # curve_state

\* C14 witness: a Reinvest's callback is pending, claims are pending, and
\* the liquid balance exceeds them by exactly min_withdrawal; the callback
\* delegates.
C14_Witness ==
    /\ callbacks > 0
    /\ curve_state.claims > 0
    /\ Liquid - curve_state.claims = invest.min_withdrawal
    /\ _bond_all_tokens(Storage, invest, MOCK_CONTRACT_ADDR, Querier(<<>>)).msgs
          = <<Delegate(invest.min_withdrawal, invest.bond_denom)>>

\* C15: when _BondAllTokens takes the below-minimum no-op path, its result
\* still reports a recognizable "skipped" outcome: an attribute that
\* distinguishes it from an empty success.
C15_NoOpReportsSkipped ==
    \A bal \in Queried :
        LET r == _bond_all_tokens(Storage, invest, MOCK_CONTRACT_ADDR, QuerierWith(bal)) IN
        (bal < curve_state.claims \/ bal - curve_state.claims < invest.min_withdrawal)
            => r.err = "ok" /\ Len(r.attrs) > 0

\* C16: a _BondAllTokens that is not a no-op increases CurveState.reserve by
\* exactly liquid balance - CurveState.claims, emits exactly one delegate
\* effect for that amount (min_withdrawal is a threshold and is not
\* deducted), and leaves supply, claims, total_supply and all balances
\* unchanged.
C16_BondAllTokensDelegatesLeftover ==
    \A bal \in Queried :
        LET r == _bond_all_tokens(Storage, invest, MOCK_CONTRACT_ADDR, QuerierWith(bal)) IN
        (r.err = "ok" /\ r.msgs # <<>>) =>
            /\ bal >= curve_state.claims
            /\ r.st = [Storage EXCEPT !.curve_state.reserve = @ + (bal - curve_state.claims)]
            /\ r.msgs = <<Delegate(bal - curve_state.claims, invest.bond_denom)>>

\* C16 witness: the pending callback finds more than min_withdrawal beyond
\* the pending claims and delegates all of it.
C16_Witness ==
    LET r == _bond_all_tokens(Storage, invest, MOCK_CONTRACT_ADDR, Querier(<<>>)) IN
    /\ callbacks > 0
    /\ total_supply > 0
    /\ Liquid - curve_state.claims > invest.min_withdrawal
    /\ r.msgs = <<Delegate(Liquid - curve_state.claims, invest.bond_denom)>>
    /\ r.st.curve_state.reserve = curve_state.reserve + Liquid - curve_state.claims

\* Reinvest by any caller: success, storage untouched, the withdrawal and
\* then the self-invocation
ReinvestEmitsTwo ==
    \A sender \in Accounts \cup {MOCK_CONTRACT_ADDR} :
        LET r == reinvest(Storage, invest, sender) IN
        /\ r.err = "ok"
        /\ r.st = Storage
        /\ r.msgs = <<WithdrawDelegatorReward, WasmExecuteBondAllTokens>>
        /\ Outcome("reinvest", sender, <<>>, 0, r).committed

\* a step that queues a self-invocation is a Reinvest: storage and staking
\* are untouched and only the withdrawn reward arrives
QueuedByReinvest ==
    /\ callbacks' = callbacks + 1
    /\ Storage' = Storage
    /\ bonded' = bonded /\ unbonding' = unbonding
    /\ \E reward \in 0..MaxReward :
          bank' = [bank EXCEPT ![BondDenom] = @ + reward]

\* a step that delivers a self-invocation runs _bond_all_tokens as the
\* contract and consumes one that a Reinvest queued
DeliveredCallback ==
    LET r == _bond_all_tokens(Storage, invest, MOCK_CONTRACT_ADDR, Querier(<<>>)) IN
    /\ callbacks > 0
    /\ callbacks' = callbacks - 1
    /\ r.err = "ok"
    /\ Storage' = r.st

\* C17: Reinvest succeeds for any caller, changes no contract state and
\* emits exactly two effects in order: withdraw-accumulated-reward from the
\* validator, then a self-invocation of _BondAllTokens; a _BondAllTokens
\* that passes authorization only ever runs on a self-invocation that an
\* earlier Reinvest emitted.
C17_ReinvestThenBondAll ==
    /\ [](callbacks >= 0 /\ ReinvestEmitsTwo)
    /\ [][/\ callbacks' > callbacks => QueuedByReinvest
          /\ callbacks' < callbacks => DeliveredCallback]_vars

\* C17 witness: a Reinvest withdrew a reward and its self-invocation is
\* pending; delivered, it passes authorization and delegates the reward.
C17_Witness ==
    /\ callbacks = 1
    /\ bonded > 0
    /\ curve_state.claims = 0
    /\ Liquid > 0
    /\ _bond_all_tokens(Storage, invest, MOCK_CONTRACT_ADDR, Querier(<<>>)).msgs
          = <<Delegate(Liquid, invest.bond_denom)>>

\* C18: a Bond of payment p mints p tokens when the prior supply or the
\* bonded total is zero, and otherwise mints p * supply / reserve tokens,
\* keeping the nominal value reserve / supply of a token.
C18_BondMintsAtRatio ==
    \A sender \in Accounts, funds \in FundsChoices :
        LET r == bond(Storage, invest, sender, funds, Querier(funds), curve_type)
            p == find_coin(funds, invest.bond_denom).amount
        IN r.err = "ok" =>
              r.st.total_supply - total_supply =
                  IF curve_state.supply = 0 \/ bonded = 0 THEN p
                  ELSE (p * curve_state.supply) \div curve_state.reserve

\* the exit tax unbond charges on amount
exit_tax_of(amount) == (amount * invest.exit_tax) \div 100

\* C19: an Unbond of amount tokens queues a claim of
\* (amount - tax) * reserve / supply, taken at the nominal value before the
\* Unbond, so the nominal value reserve / supply stays the same.
C19_UnbondClaimsAtRatio ==
    \A sender \in Accounts, amount \in Amounts :
        LET r == unbond(Storage, invest, sender, amount, now, Querier(<<>>), curve_type)
            queue == r.st.claims[sender]
        IN (r.err = "ok" /\ curve_state.supply > 0) =>
              /\ Len(queue) = Len(claims[sender]) + 1
              /\ queue[Len(queue)].amount =
                    ((amount - exit_tax_of(amount)) * curve_state.reserve)
                        \div curve_state.supply

\* C20: a successful Unbond of amount takes amount off the caller's
\* balance, mints tax = floor(amount * exit_tax) to the owner (nothing when
\* the tax is 0), lowers total_supply and CurveState.supply by exactly
\* amount - tax, and both the claim created and the undelegate effect are
\* for old reserve - new reserve, the new reserve being the curve's value
\* at the new supply: the tax takes nothing out of the reserve.
C20_UnbondAccounting ==
    \A sender \in Accounts, amount \in Amounts :
        LET r == unbond(Storage, invest, sender, amount, now, Querier(<<>>), curve_type)
            tax == exit_tax_of(amount)
            released == curve_state.reserve - r.st.curve_state.reserve
        IN r.err = "ok" =>
              /\ r.st.balances = [[balances EXCEPT ![sender] = @ - amount]
                                      EXCEPT ![invest.owner] = @ + tax]
              /\ r.st.total_supply = total_supply - (amount - tax)
              /\ r.st.curve_state.supply = curve_state.supply - (amount - tax)
              /\ r.st.curve_state.reserve =
                    curve_reserve(curve_type, curve_state.decimals,
                                  curve_state.supply - (amount - tax))
              /\ r.st.curve_state.claims = curve_state.claims + released
              /\ r.st.claims = [claims EXCEPT ![sender] =
                    Append(@, [amount |-> released,
                               release_at |-> now + invest.unbonding_period])]
              /\ r.msgs = <<Undelegate(released, invest.bond_denom)>>

\* C20 witness: bob, who is not the owner, can unbond an amount that is
\* taxed; the owner receives the tax and bonded funds are released.
C20_Witness ==
    \E amount \in Amounts :
        LET r == unbond(Storage, invest, BOB, amount, now, Querier(<<>>), curve_type) IN
        /\ exit_tax_of(amount) > 0
        /\ r.err = "ok"
        /\ r.st.balances[invest.owner] = balances[invest.owner] + exit_tax_of(amount)
        /\ r.st.curve_state.reserve < curve_state.reserve
        /\ Outcome("unbond", BOB, <<>>, 0, r).committed

\* C21: Buy fails with a payment error and changes no state when the
\* attached funds are empty (NoFunds), are a single coin of another
\* denomination (MissingDenom), or hold more than one coin (MultipleDenoms).
C21_BuyPaymentErrors ==
    \A sender \in Accounts, funds \in FundsChoices :
        LET r == execute_buy(Storage, sender, funds, curve_type)
            refused(e) == /\ r.err = e
                          /\ r.st = Storage
                          /\ r.msgs = <<>>
                          /\ Discarded(Outcome("buy", sender, funds, 0, r))
        IN /\ funds = <<>> => refused("NoFunds")
           /\ (Len(funds) = 1 /\ funds[1].amount > 0
                  /\ funds[1].denom # curve_state.reserve_denom) => refused("MissingDenom")
           /\ Len(funds) > 1 => refused("MultipleDenoms")

\* C21 witness: tokens exist, a payment in the reserve denomination would
\* buy more, and the same amount in another denomination, alone or next to
\* a second coin, is refused.
C21_Witness ==
    \E a \in 1..MaxPay, d \in Denoms :
        /\ total_supply > 0
        /\ d # curve_state.reserve_denom
        /\ execute_buy(Storage, BOB, <<Coin(a, curve_state.reserve_denom)>>, curve_type).err = "ok"
        /\ execute_buy(Storage, BOB, <<Coin(a, d)>>, curve_type).err = "MissingDenom"
        /\ execute_buy(Storage, BOB, <<Coin(1, JunkDenom), Coin(a, BondDenom)>>, curve_type).err
              = "MultipleDenoms"
        /\ execute_buy(Storage, BOB, <<>>, curve_type).err = "NoFunds"

\* the curve's supply for a reserve, under the stored curve and decimals
supply_for(reserve) == curve_supply(curve_type, curve_state.decimals, reserve)

\* payments a Buy can carry in the reserve denomination
Payments == {<<Coin(a, curve_state.reserve_denom)>> : a \in 1..MaxPay}

reserve_for(supply) == curve_reserve(curve_type, curve_state.decimals, supply)

\* C23: a successful Sell (Burn) of amount lowers the caller's balance,
\* total_supply and CurveState.supply by exactly amount, sets the reserve
\* to reserve_for(new supply), and emits exactly one transfer of
\* old reserve - new reserve in the reserve denomination to the caller.
C23_SellFollowsCurve ==
    \A sender \in Accounts, funds \in FundsChoices, amount \in Amounts :
        LET r == execute_sell(Storage, sender, funds, amount, curve_type)
            new_reserve == reserve_for(curve_state.supply - amount)
        IN r.err = "ok" =>
              /\ amount > 0 /\ funds = <<>>
              /\ r.st = [Storage EXCEPT
                           !.balances[sender] = @ - amount,
                           !.total_supply = @ - amount,
                           !.curve_state.supply = @ - amount,
                           !.curve_state.reserve = new_reserve]
              /\ r.msgs = <<BankSend(sender, curve_state.reserve - new_reserve,
                                     curve_state.reserve_denom)>>

\* C23 witness: bob sells part of what he holds, the curve releases
\* reserve, and the contract can pay it.
C23_Witness ==
    \E amount \in Amounts :
        LET r == execute_sell(Storage, BOB, <<>>, amount, curve_type) IN
        /\ amount < balances[BOB]
        /\ r.err = "ok"
        /\ r.st.curve_state.reserve < curve_state.reserve
        /\ r.st.curve_state.reserve = reserve_for(r.st.curve_state.supply)
        /\ Outcome("burn", BOB, <<>>, 0, r).committed

\* the invocation op by sender with funds, ending in res, failed and left
\* storage and the host as they were
Refused(op, sender, funds, res) ==
    /\ res.err # "ok"
    /\ res.msgs = <<>>
    /\ Discarded(Outcome(op, sender, funds, 0, res))

\* spender holds an unexpired allowance from owner
AllowanceUsable(owner, spender) ==
    /\ allowances[<<owner, spender>>].present
    /\ ~is_expired(allowances[<<owner, spender>>].expires, now)

\* C24: Sell, BurnFrom and Unbond of an amount above the burner's balance
\* fail and leave balances, total_supply, allowances, CurveState and the
\* claim queues unchanged, and so do Sell and BurnFrom with funds attached
\* or a zero amount.  The error is the underflow of a subtraction when no
\* earlier check refuses: no funds attached to Sell and BurnFrom, an
\* unexpired allowance for BurnFrom, an amount of at least min_withdrawal
\* for Unbond.
C24_InsufficientBalanceFails ==
    \A sender \in Accounts, owner \in Accounts, funds \in FundsChoices, amount \in Amounts :
        LET s == execute_sell(Storage, sender, funds, amount, curve_type)
            f == execute_sell_from(Storage, sender, funds, owner, amount, now, curve_type)
            u == unbond(Storage, invest, sender, amount, now, Querier(<<>>), curve_type)
        IN /\ (amount > balances[sender] \/ funds # <<>> \/ amount = 0)
                 => Refused("burn", sender, funds, s)
           /\ (amount > balances[owner] \/ funds # <<>> \/ amount = 0)
                 => Refused("burn_from", sender, funds, f)
           /\ amount > balances[sender] => Refused("unbond", sender, <<>>, u)
           /\ (amount > balances[sender] /\ funds = <<>>) => s.err = "Overflow"
           /\ (amount > balances[owner] /\ funds = <<>> /\ AllowanceUsable(owner, sender))
                 => f.err = "Overflow"
           /\ (amount > balances[sender] /\ amount >= invest.min_withdrawal)
                 => u.err = "Overflow"

\* C24 witness: creator holds a token and has approved bob for more; bob's
\* BurnFrom, creator's Sell and creator's Unbond of more than creator
\* holds all end in the underflow error.
C24_Witness ==
    \E amount \in Amounts :
        /\ 0 < balances[CREATOR] /\ balances[CREATOR] < amount
        /\ amount <= total_supply
        /\ AllowanceUsable(CREATOR, BOB)
        /\ allowances[<<CREATOR, BOB>>].allowance >= amount
        /\ amount >= invest.min_withdrawal
        /\ execute_sell_from(Storage, BOB, <<>>, CREATOR, amount, now, curve_type).err = "Overflow"
        /\ execute_sell(Storage, CREATOR, <<>>, amount, curve_type).err = "Overflow"
        /\ unbond(Storage, invest, CREATOR, amount, now, Querier(<<>>), curve_type).err = "Overflow"

\* C24 as first stated: every Sell, BurnFrom and Unbond of an amount above
\* the burner's balance fails with the underflow error.
C24_InsufficientBalanceUnderflows ==
    \A sender \in Accounts, owner \in Accounts, amount \in Amounts :
        /\ amount > balances[sender] =>
              /\ execute_sell(Storage, sender, <<>>, amount, curve_type).err = "Overflow"
              /\ unbond(Storage, invest, sender, amount, now, Querier(<<>>), curve_type).err
                    = "Overflow"
        /\ amount > balances[owner] =>
              execute_sell_from(Storage, sender, <<>>, owner, amount, now, curve_type).err
                  = "Overflow"

\* C25: BurnFrom(owner, amount) by a spender first takes amount off the
\* spender's allowance from the owner, failing with no state change when
\* the allowance is absent, expired or smaller than amount; it burns amount
\* from the owner's balance, not the spender's, and sends the released
\* reserve to the spender.
C25_BurnFromSpendsAllowance ==
    \A sender \in Accounts, owner \in Accounts, amount \in Amounts :
        LET f == execute_sell_from(Storage, sender, <<>>, owner, amount, now, curve_type)
            a == allowances[<<owner, sender>>]
            new_reserve == reserve_for(curve_state.supply - amount)
        IN /\ ~a.present => f.err = "NoAllowance"
           /\ (a.present /\ is_expired(a.expires, now)) => f.err = "Expired"
           /\ (AllowanceUsable(owner, sender) /\ a.allowance < amount) => f.err = "Overflow"
           /\ f.err # "ok" => Refused("burn_from", sender, <<>>, f)
           /\ f.err = "ok" =>
                 /\ f.st = [Storage EXCEPT
                              !.allowances[<<owner, sender>>].allowance = @ - amount,
                              !.balances[owner] = @ - amount,
                              !.total_supply = @ - amount,
                              !.curve_state.supply = @ - amount,
                              !.curve_state.reserve = new_reserve]
                 /\ f.msgs = <<BankSend(sender, curve_state.reserve - new_reserve,
                                        curve_state.reserve_denom)>>

\* C25 witness: bob holds no tokens and an allowance from creator; his
\* BurnFrom burns creator's tokens, lowers the allowance and pays bob.
C25_Witness ==
    \E amount \in Amounts :
        LET f == execute_sell_from(Storage, BOB, <<>>, CREATOR, amount, now, curve_type) IN
        /\ balances[BOB] = 0
        /\ f.err = "ok"
        /\ f.st.balances[CREATOR] = balances[CREATOR] - amount
        /\ f.st.allowances[<<CREATOR, BOB>>].allowance
              = allowances[<<CREATOR, BOB>>].allowance - amount
        /\ f.msgs[1].to = BOB /\ f.msgs[1].amount > 0
        /\ Outcome("burn_from", BOB, <<>>, 0, f).committed

\* res, when it succeeds, leaves total_supply and CurveState.supply alone
KeepsSupply(res) ==
    res.err = "ok" => /\ res.st.total_supply = total_supply
                      /\ res.st.curve_state.supply = curve_state.supply

\* the handlers that never mint or burn, on every input
OthersKeepSupply ==
    /\ \A sender \in Accounts, other \in Accounts, amount \in Amounts :
          /\ KeepsSupply(execute_transfer(Storage, sender, other, amount))
          /\ KeepsSupply(execute_send(Storage, sender, other, amount))
          /\ \A to \in Accounts :
                /\ KeepsSupply(execute_transfer_from(Storage, sender, other, to, now, amount))
                /\ KeepsSupply(execute_send_from(Storage, sender, other, to, now, amount))
          /\ \A e \in ExpiryChoices :
                /\ KeepsSupply(execute_increase_allowance(Storage, sender, other, amount, e))
                /\ KeepsSupply(execute_decrease_allowance(Storage, sender, other, amount, e))
    /\ \A sender \in Accounts :
          KeepsSupply(claim(Storage, invest, sender, now, Querier(<<>>)))
    /\ \A sender \in Accounts \cup {MOCK_CONTRACT_ADDR} :
          /\ KeepsSupply(reinvest(Storage, invest, sender))
          /\ \A bal \in Queried :
                KeepsSupply(_bond_all_tokens(Storage, invest, sender, QuerierWith(bal)))

\* the mint primitive refuses every caller but the contract
NoAccountMints ==
    \A sender \in Accounts, recipient \in Accounts, amount \in Amounts :
        execute_mint(Storage, sender, recipient, amount).err # "ok"

\* C26: total_supply changes only through the mint and burn primitives
\* reached from Buy, Bond, Sell, BurnFrom and Unbond: no account can mint
\* directly, and Transfer, Send, TransferFrom, SendFrom, the allowance
\* changes, Claim, Reinvest and _BondAllTokens leave total_supply and
\* CurveState.supply unchanged.
C26_SupplyChangesOnlyByTrade ==
    /\ [](OthersKeepSupply /\ NoAccountMints)
    /\ [][(total_supply' # total_supply \/ curve_state'.supply # curve_state.supply)
             => (Buy \/ Bond \/ Burn \/ BurnFrom \/ Unbond)]_vars

\* C26 witness: creator holds tokens and a matured claim; Send, Claim and
\* the contract's _BondAllTokens all succeed here, and none of them moves
\* the supply.
C26_Witness ==
    LET c == claim(Storage, invest, CREATOR, now, Querier(<<>>))
        t == execute_send(Storage, CREATOR, BOB, 1)
    IN /\ total_supply > 0
       /\ c.err = "ok" /\ c.msgs # <<>>
       /\ t.err = "ok" /\ t.st.balances[BOB] = balances[BOB] + 1
       /\ Outcome("send", CREATOR, <<>>, 0, t).committed
       /\ t.st.total_supply = total_supply

\* C27: in every reachable state CurveState.claims is at most
\* CurveState.reserve.
C27_ClaimsWithinReserve == curve_state.claims <= curve_state.reserve

\* C28: every operation that changes CurveState.reserve or
\* CurveState.supply (Buy, Sell, BurnFrom, Bond, Unbond, _BondAllTokens)
\* first checks that the delegated total equals the cached reserve and
\* fails, changing nothing, when it does not.
C28_MutatorsCheckDelegation ==
    bonded # curve_state.reserve =>
        /\ \A sender \in Accounts, funds \in FundsChoices :
              /\ execute_buy(Storage, sender, funds, curve_type).err # "ok"
              /\ bond(Storage, invest, sender, funds, Querier(funds), curve_type).err # "ok"
        /\ \A sender \in Accounts, owner \in Accounts, amount \in Amounts :
              /\ execute_sell(Storage, sender, <<>>, amount, curve_type).err # "ok"
              /\ execute_sell_from(Storage, sender, <<>>, owner, amount, now, curve_type).err
                    # "ok"
              /\ unbond(Storage, invest, sender, amount, now, Querier(<<>>), curve_type).err
                    # "ok"
        /\ \A bal \in Queried :
              LET r == _bond_all_tokens(Storage, invest, MOCK_CONTRACT_ADDR, QuerierWith(bal))
              IN r.err = "ok" => r.st = Storage

\* the curve integral between the supply and the supply less k tokens
integral(k) == reserve_for(curve_state.supply) - reserve_for(curve_state.supply - k)

\* C29: the reserve released by a Sell, BurnFrom or Unbond that removes k
\* tokens from the supply equals the curve integral
\* reserve_for(supply) - reserve_for(supply - k) in every reachable state,
\* also after _BondAllTokens has added reinvested rewards to the reserve.
C29_ReleaseIsIntegral ==
    \A sender \in Accounts, owner \in Accounts, amount \in Amounts :
        LET s == execute_sell(Storage, sender, <<>>, amount, curve_type)
            f == execute_sell_from(Storage, sender, <<>>, owner, amount, now, curve_type)
            u == unbond(Storage, invest, sender, amount, now, Querier(<<>>), curve_type)
        IN /\ s.err = "ok" => s.msgs[1].amount = integral(amount)
           /\ f.err = "ok" => f.msgs[1].amount = integral(amount)
           /\ u.err = "ok" => u.msgs[1].amount = integral(amount - exit_tax_of(amount))

\* what the contract holds: the delegated total, its liquid balances and
\* the funds still unbonding
AssetsHeld ==
    bonded + SumOver(bank, Denoms) + SumOver(unbonding, HostTimes)

\* C30: the books never promise more than the contract holds: with the
\* effects of every operation applied, CurveState.reserve +
\* CurveState.claims is at most the delegated total plus the liquid
\* balance plus the funds still unbonding.
C30_BooksWithinAssets == curve_state.reserve + curve_state.claims <= AssetsHeld

\* C31: in every reachable state a Buy or a Bond with a valid positive
\* payment never fails on the defensive underflow check:
\* supply_for(reserve + payment) >= supply, also right after a Sell or an
\* Unbond has set the reserve to the truncated reserve_for(supply).
C31_MintNeverUnderflows ==
    /\ \A p \in 1..MaxPay : supply_for(curve_state.reserve + p) >= curve_state.supply
    /\ \A sender \in Accounts, funds \in FundsChoices :
          /\ execute_buy(Storage, sender, funds, curve_type).err # "Overflow"
          /\ find_coin(funds, invest.bond_denom).amount > 0 =>
                bond(Storage, invest, sender, funds, Querier(funds), curve_type).err
                    # "Overflow"

\* C31 witness: tokens are out, the reserve is the truncated
\* reserve_for(supply), which alone would pay for fewer tokens than exist,
\* and a Buy succeeds.
C31_Witness ==
    /\ curve_state.supply > 0
    /\ curve_state.reserve = reserve_for(curve_state.supply)
    /\ supply_for(curve_state.reserve) < curve_state.supply
    /\ \E funds \in Payments : execute_buy(Storage, BOB, funds, curve_type).err = "ok"

\* the errors that reject an operation for breaking a policy
PolicyErrors ==
    {"InvalidZeroAmount", "Unauthorized", "UnbondTooSmall",
     "NoFunds", "MissingDenom", "MultipleDenoms", "EmptyBalance"}

\* res was rejected for policy only with storage as the operation found it
RejectedUnwritten(res) == res.err \in PolicyErrors => res.st = Storage

\* C32: every policy-violation rejection (zero-amount mint or burn,
\* unauthorized mint, unbond below minimum, wrong, missing or multiple
\* payment denominations, unauthorized _BondAllTokens) happens before the
\* operation has written anything to storage, also for a Buy or Bond whose
\* minted amount is zero and an Unbond whose tax mint is rejected.
C32_RejectionsBeforeWrites ==
    /\ \A sender \in Accounts, funds \in FundsChoices :
          /\ RejectedUnwritten(execute_buy(Storage, sender, funds, curve_type))
          /\ RejectedUnwritten(bond(Storage, invest, sender, funds, Querier(funds), curve_type))
    /\ \A sender \in Accounts, owner \in Accounts, amount \in Amounts :
          /\ RejectedUnwritten(execute_sell(Storage, sender, <<>>, amount, curve_type))
          /\ RejectedUnwritten(execute_sell_from(Storage, sender, <<>>, owner, amount,
                                                 now, curve_type))
          /\ RejectedUnwritten(unbond(Storage, invest, sender, amount, now,
                                      Querier(<<>>), curve_type))
          /\ RejectedUnwritten(execute_mint(Storage, sender, owner, amount))
    /\ \A sender \in Accounts, bal \in Queried :
          RejectedUnwritten(_bond_all_tokens(Storage, invest, sender, QuerierWith(bal)))

\* with a callback pending, Bond and Unbond meet BondedMismatch exactly
\* when the delegated total differs from the cached reserve: the withdrawn
\* reward waiting in the liquid balance plays no part
PendingReconciles ==
    callbacks > 0 =>
        /\ \A sender \in Accounts, funds \in FundsChoices :
              LET r == bond(Storage, invest, sender, funds, Querier(funds), curve_type) IN
              /\ r.err = "BondedMismatch" => bonded # curve_state.reserve
              /\ (bonded = curve_state.reserve
                     /\ find_coin(funds, invest.bond_denom).amount > 0
                     /\ supply_for(curve_state.reserve
                                     + find_coin(funds, invest.bond_denom).amount)
                            > curve_state.supply)
                    => r.err = "ok"
        /\ \A sender \in Accounts, amount \in Amounts :
              LET r == unbond(Storage, invest, sender, amount, now, Querier(<<>>), curve_type)
              IN /\ r.err = "BondedMismatch" => bonded # curve_state.reserve
                 /\ (bonded = curve_state.reserve /\ amount >= invest.min_withdrawal
                        /\ amount <= balances[sender] /\ exit_tax_of(amount) <= amount)
                       => r.err = "ok"

\* a callback delivered while the reserve is reconciled keeps it
\* reconciled and delegates no more than the liquid balance beyond claims
CallbackKeepsEarmarked ==
    (callbacks' < callbacks /\ bonded = curve_state.reserve) =>
        /\ bonded' = curve_state'.reserve
        /\ curve_state'.claims = curve_state.claims
        /\ bonded' - bonded = Liquid - Liquid'
        /\ IF Liquid >= curve_state.claims
           THEN Liquid' >= curve_state.claims
           ELSE Liquid' = Liquid

\* C33: a Bond or Unbond executed between a Reinvest's reward withdrawal
\* and its _BondAllTokens callback passes reconciliation as it would with
\* no Reinvest pending, and after the callback (no-op or not) and its
\* delegate effect the cached reserve still equals the delegated total and
\* no funds earmarked by CurveState.claims have been delegated.
C33_PendingCallbackIsSafe ==
    [](PendingReconciles) /\ [][CallbackKeepsEarmarked]_vars

\* C33 witness: a Reinvest has withdrawn a reward and its callback is
\* pending, an Unbond has earmarked claims, the reserve is reconciled, a
\* further Bond passes, and the callback would delegate the reward only.
C33_Witness ==
    LET r == _bond_all_tokens(Storage, invest, MOCK_CONTRACT_ADDR, Querier(<<>>)) IN
    /\ callbacks > 0
    /\ curve_state.claims > 0
    /\ bonded = curve_state.reserve
    /\ \E funds \in FundsChoices :
          bond(Storage, invest, BOB, funds, Querier(funds), curve_type).err = "ok"
    /\ r.msgs = <<Delegate(Liquid - curve_state.claims, invest.bond_denom)>>

\* C34: every instantiated contract has exit_tax within [0,1], so in every
\* Unbond the tax never exceeds the amount and amount - tax never
\* underflows: no accepted configuration makes every Unbond fail.
C34_ExitTaxWithinUnit ==
    /\ invest.exit_tax \in 0..100
    /\ \A amount \in Amounts : exit_tax_of(amount) <= amount
    /\ \A sender \in Accounts, amount \in Amounts :
          (amount >= invest.min_withdrawal /\ amount <= balances[sender]
              /\ bonded = curve_state.reserve)
             => unbond(Storage, invest, sender, amount, now, Querier(<<>>), curve_type).err
                   = "ok"

\* C35: in every reachable state CurveState.supply equals the token
\* ledger's total_supply: the curve's cached supply and the cw20 supply
\* never diverge, also across Unbond's burn-then-tax-mint and
\* _BondAllTokens.
C35_SupplyMatchesLedger == curve_state.supply = total_supply

\* C35 witness: bob can unbond with a tax, which burns amount and mints the
\* tax, and a pending callback would add a reward to the reserve; after
\* either the two supplies agree.
C35_Witness ==
    \E amount \in Amounts :
        LET u == unbond(Storage, invest, BOB, amount, now, Querier(<<>>), curve_type)
            r == _bond_all_tokens(Storage, invest, MOCK_CONTRACT_ADDR, Querier(<<>>))
        IN /\ exit_tax_of(amount) > 0
           /\ u.err = "ok"
           /\ u.st.total_supply = total_supply - amount + exit_tax_of(amount)
           /\ u.st.curve_state.supply = u.st.total_supply
           /\ callbacks > 0
           /\ r.msgs # <<>>
           /\ r.st.curve_state.supply = r.st.total_supply

\* every send among `msgs` is covered by the contract's liquid balance
SendsCovered(msgs) ==
    \A i \in DOMAIN msgs : msgs[i].type = "send" => msgs[i].amount <= bank[msgs[i].denom]

EmitsCovered(res) == res.err = "ok" => SendsCovered(res.msgs)

\* C36: every transfer emitted by a successful Sell, BurnFrom or Claim is for
\* an amount no larger than the contract's liquid balance of that
\* denomination at the time of the operation.
C36_EmittedTransfersCovered ==
    /\ \A sender \in Accounts, amount \in Amounts :
          EmitsCovered(execute_sell(Storage, sender, <<>>, amount, curve_type))
    /\ \A sender \in Accounts, owner \in Accounts, amount \in Amounts :
          EmitsCovered(execute_sell_from(Storage, sender, <<>>, owner, amount, now, curve_type))
    /\ \A sender \in Accounts :
          EmitsCovered(claim(Storage, invest, sender, now, Querier(<<>>)))

\* the part of C36 about Claim alone
ClaimEmitsCovered ==
    \A sender \in Accounts : EmitsCovered(claim(Storage, invest, sender, now, Querier(<<>>)))

\* a Buy paying `funds` that would not move the curve to a higher supply
BuyTooSmall(funds) ==
    /\ must_pay(funds, curve_state.reserve_denom).err = "ok"
    /\ supply_for(curve_state.reserve + must_pay(funds, curve_state.reserve_denom).amount)
          = curve_state.supply

\* a Bond paying `funds`, reconciled, that would not move the curve to a
\* higher supply
BondTooSmall(funds) ==
    /\ find_coin(funds, invest.bond_denom).err = "ok"
    /\ assert_bonds(curve_state, Querier(funds).bonded) = "ok"
    /\ supply_for(curve_state.reserve + find_coin(funds, invest.bond_denom).amount)
          = curve_state.supply

TooSmallRefused ==
    \A sender \in Accounts, funds \in FundsChoices :
        /\ BuyTooSmall(funds) =>
              LET res == execute_buy(Storage, sender, funds, curve_type)
              IN res.err = "InvalidZeroAmount" /\ Refused("buy", sender, funds, res)
        /\ BondTooSmall(funds) =>
              LET res == bond(Storage, invest, sender, funds, Querier(funds), curve_type)
              IN res.err = "InvalidZeroAmount" /\ Refused("bond", sender, funds, res)

\* a Buy or Bond step that raises the reserve mints tokens
ReserveRisesWithMint ==
    (curve_state'.reserve > curve_state.reserve /\ (Buy \/ Bond))
        => total_supply' > total_supply

TakesOnlyFrom(res, allowed) ==
    res.err = "ok" =>
        \A a \in Accounts : res.st.balances[a] < balances[a] => a \in allowed

\* a successful res lowers the balance of owner only, and only within an
\* unexpired allowance from owner to spender
TakesByAllowance(res, owner, spender) ==
    res.err = "ok" =>
        \A a \in Accounts :
            res.st.balances[a] < balances[a] =>
                /\ a = owner
                /\ AllowanceUsable(owner, spender)
                /\ allowances[<<owner, spender>>].allowance >= balances[a] - res.st.balances[a]

\* the queue of a in res still starts with all the entries a has now
QueueKept(res, a) ==
    /\ Len(res.st.claims[a]) >= Len(claims[a])
    /\ SubSeq(res.st.claims[a], 1, Len(claims[a])) = claims[a]

\* a successful res consumes no claim entry
ConsumesNoClaim(res) == res.err = "ok" => \A a \in Accounts : QueueKept(res, a)

\* a successful Claim by sender consumes entries of sender only and pays
\* what it consumed to sender
ConsumesOwnClaims(res, sender) ==
    res.err = "ok" =>
        /\ \A a \in Accounts \ {sender} : QueueKept(res, a)
        /\ res.msgs = <<BankSend(sender, SumSeq(claims[sender]) - SumSeq(res.st.claims[sender]),
                                 invest.bond_denom)>>

OwnerOps(sender) ==
    {execute_sell(Storage, sender, <<>>, amount, curve_type) : amount \in Amounts}
    \cup {unbond(Storage, invest, sender, amount, now, Querier(<<>>), curve_type) :
             amount \in Amounts}
    \cup {execute_transfer(Storage, sender, to, amount) : to \in Accounts, amount \in Amounts}
    \cup {execute_send(Storage, sender, to, amount) : to \in Accounts, amount \in Amounts}

AllowanceOps(sender, owner) ==
    {execute_sell_from(Storage, sender, <<>>, owner, amount, now, curve_type) :
        amount \in Amounts}
    \cup {execute_transfer_from(Storage, sender, owner, to, now, amount) :
             to \in Accounts, amount \in Amounts}
    \cup {execute_send_from(Storage, sender, owner, to, now, amount) :
             to \in Accounts, amount \in Amounts}

OtherOps(sender) ==
    {execute_buy(Storage, sender, funds, curve_type) : funds \in FundsChoices}
    \cup {bond(Storage, invest, sender, funds, Querier(funds), curve_type) :
             funds \in FundsChoices}
    \cup {reinvest(Storage, invest, sender)}
    \cup {_bond_all_tokens(Storage, invest, sender, Querier(<<>>))}
    \cup {execute_increase_allowance(Storage, sender, to, amount, e) :
             to \in Accounts, amount \in Amounts, e \in ExpiryChoices}
    \cup {execute_decrease_allowance(Storage, sender, to, amount, NoExpiryGiven) :
             to \in Accounts, amount \in Amounts}

\* C38: no operation decreases the token balance of an account A unless A
\* is its caller (Sell, Unbond, Transfer, Send) or its caller holds an
\* unexpired allowance from A of at least the amount removed (BurnFrom,
\* TransferFrom, SendFrom); a claim entry of A is only consumed by a Claim
\* called by A, with the payout sent to A.
C38_OnlyOwnerOrAllowance ==
    /\ \A sender \in Accounts :
          /\ \A res \in OwnerOps(sender) :
                TakesOnlyFrom(res, {sender}) /\ ConsumesNoClaim(res)
          /\ \A owner \in Accounts : \A res \in AllowanceOps(sender, owner) :
                TakesByAllowance(res, owner, sender) /\ ConsumesNoClaim(res)
          /\ \A res \in OtherOps(sender) :
                TakesOnlyFrom(res, {}) /\ ConsumesNoClaim(res)
          /\ LET res == claim(Storage, invest, sender, now, Querier(<<>>))
             IN TakesOnlyFrom(res, {}) /\ ConsumesOwnClaims(res, sender)
    /\ LET res == _bond_all_tokens(Storage, invest, MOCK_CONTRACT_ADDR, Querier(<<>>))
       IN TakesOnlyFrom(res, {}) /\ ConsumesNoClaim(res)

\* C38 witness: both accounts hold tokens and creator holds an unexpired
\* allowance from bob but bob none from creator: bob's own Transfer lowers
\* bob's balance, creator's TransferFrom takes one of bob's tokens within
\* the allowance, and bob's TransferFrom, SendFrom and BurnFrom on creator's
\* tokens are refused.
C38_Witness ==
    /\ balances[CREATOR] > 0 /\ balances[BOB] > 0
    /\ ~allowances[<<CREATOR, BOB>>].present
    /\ execute_transfer_from(Storage, BOB, CREATOR, BOB, now, 1).err = "NoAllowance"
    /\ execute_send_from(Storage, BOB, CREATOR, BOB, now, 1).err = "NoAllowance"
    /\ execute_sell_from(Storage, BOB, <<>>, CREATOR, 1, now, curve_type).err = "NoAllowance"
    /\ AllowanceUsable(BOB, CREATOR)
    /\ allowances[<<BOB, CREATOR>>].allowance >= 1
    /\ execute_transfer_from(Storage, CREATOR, BOB, CREATOR, now, 1).err = "ok"
    /\ execute_transfer_from(Storage, CREATOR, BOB, CREATOR, now, 1).st.balances[BOB]
          = balances[BOB] - 1
    /\ execute_transfer(Storage, BOB, CREATOR, 1).err = "ok"

\* every entry in every claim queue has a positive amount
QueuedPositive ==
    \A a \in Accounts : \A i \in DOMAIN claims[a] : claims[a][i].amount > 0

\* an entry of amount 0 has matured and the Claim of its holder, with enough
\* liquid balance, is refused
StuckZeroEntry ==
    \E a \in Accounts :
        /\ \E i \in DOMAIN claims[a] :
              claims[a][i].amount = 0 /\ claims[a][i].release_at <= now
        /\ Liquid >= invest.min_withdrawal
        /\ claim(Storage, invest, a, now, Querier(<<>>)).err = "NothingToClaim"

\* C39: every claim entry ever placed in the Claims Queue has a strictly
\* positive amount, and every successful Unbond emits an undelegate effect
\* for a strictly positive amount.
C39_ClaimEntriesPositive ==
    /\ QueuedPositive
    /\ \A sender \in Accounts, amount \in Amounts :
          LET r == unbond(Storage, invest, sender, amount, now, Querier(<<>>), curve_type)
          IN r.err = "ok" =>
                \A i \in DOMAIN r.msgs :
                    r.msgs[i].type = "undelegate" => r.msgs[i].amount > 0
====
